---- MODULE Spec2Model ----
(***************************************************************************)
(* Model of the diagram engine of src/app/final.js: the Layer transaction  *)
(* protocol (commit / stash / rollback / render), LayerManager's atomic    *)
(* multi-layer commit, the undo/redo history of LayerManager and           *)
(* GroupManager, the joint resolver (findJoints / probeJoint), the group   *)
(* operations of GroupManager, and decodeLayers and import.                *)
(*                                                                         *)
(* A pixel is a pair <<row, col>>; NULL stands for the null a canvas       *)
(* lookup returns for an off-grid address.  A JavaScript array that two    *)
(* fields may share (rollback assigns the stashed arrays themselves to the *)
(* live fields) is modelled by a value plus a "shares" flag: an in-place   *)
(* edit of a shared array is applied to both holders.  In the same way a   *)
(* layer stored in the history carries "alias" flags saying whether its    *)
(* arrays are the arrays of the live layer with its id.                    *)
(***************************************************************************)
EXTENDS Integers, Sequences, FiniteSets, TLC

VARIABLES
  layers,             \* LayerManager.layers: the live Layer objects, in list order
  stack,              \* the active Layer.commit calls, outermost first
  ret,                \* what the call that just returned gave back (observation)
  batch,              \* LayerManager.atomicCommit: position of its loop over the jobs
  layerHistory,       \* LayerManager.layerHistory, newest first
  historyCursor,      \* LayerManager.historyCursor
  layerGroups,        \* GroupManager.layerGroups
  layerGroupHistory,  \* GroupManager.layerGroupHistory, newest first
  hist,               \* observation of the history operations (see NoHist)
  canvas,             \* the global canvas object: its rowCount and colCount
  editingTextLayer    \* LayerManager.editingTextLayer: the id of that layer, 0 for null

vars == <<layers, stack, ret, batch, layerHistory, historyCursor,
          layerGroups, layerGroupHistory, hist, canvas, editingTextLayer>>

----------------------------------------------------------------------------
(* Bounds of the model.                                                    *)

\* The canvas has rowCount x colCount pixels (65 x 225 in the source); the
\* model runs the same code on a small grid, and on a wider one where a
\* cell has to be farther than one step away from another.
rowCount == 1
colCount == 2
WideCols == 3
\* Longest occupied-cell list a layer is given by add().
MaxPixels == 1
\* Most mutator calls run by one commit call.
MaxMut == 3
\* Most mutator calls run by a commit call that a mutator made.
MaxNestedMut == 1
\* Most mutator calls run by one job of atomicCommit.
MaxJobMut == 2
\* Most jobs handed to one atomicCommit call.
MaxJobs == 2
\* Most live layers.
MaxLayers == 2
\* Most history entries while drawing (below the program's limit).
MaxHistory == 2
\* Deepest nesting of commit calls.
MaxDepth == 2

----------------------------------------------------------------------------
(* Canvas.                                                                 *)

NULL == <<>>

Rows == 0 .. (canvas.rowCount - 1)
Cols == 0 .. (canvas.colCount - 1)
Pixels == Rows \X Cols

\* new Canvas(): the grid the pixels are taken from.
Canvas(rows, cols) == [rowCount |-> rows, colCount |-> cols]

getPixelByRowCol(r, c) == IF r \in Rows /\ c \in Cols THEN <<r, c>> ELSE NULL

\* Sequence helpers standing for Array.prototype.filter / map.
RECURSIVE FilterNull(_)
FilterNull(s) ==
  IF s = <<>> THEN <<>>
  ELSE IF Head(s) = NULL THEN FilterNull(Tail(s))
       ELSE <<Head(s)>> \o FilterNull(Tail(s))

----------------------------------------------------------------------------
(* Layer: construction and the transaction protocol.                       *)

LineForms == {"solid-thin", "solid-bold"}

EmptyStash ==
  [present |-> FALSE, fromPixel |-> NULL, toPixel |-> NULL, pixels |-> <<>>,
   values |-> <<>>, joints |-> <<>>, zindex |-> 0, lineForm |-> "solid-thin",
   isSelected |-> FALSE, tableId |-> 0]

\* new LayerClass(firstPixelId), with the id and z-order given.
NewLayer(id, type, firstPixel, z) ==
  [id |-> id, type |-> type,
   lineForm |-> "solid-thin",
   pixels |-> <<>>, values |-> <<>>, joints |-> <<>>,
   zindex |-> z, isSelected |-> FALSE,
   commitLock |-> FALSE, stashed |-> EmptyStash,
   tableId |-> 0,
   fromPixel |-> firstPixel, toPixel |-> NULL,
   sharesPixels |-> FALSE, sharesValues |-> FALSE, sharesJoints |-> FALSE,
   aliasPixels |-> FALSE, aliasValues |-> FALSE]

\* Base Layer.getKeyedJointPixels: no attachment points.
BaseKeyedJointPixels(l) == [k \in {} |-> NULL]

Least(S) == CHOOSE x \in S : \A y \in S : x <= y
Greatest(S) == CHOOSE x \in S : \A y \in S : y <= x

\* Layer.getMinMaxRowsCols, for a layer with cells.
getMinMaxRowsCols(l) ==
  LET rows == {l.pixels[i][1] : i \in 1 .. Len(l.pixels)}
      cols == {l.pixels[i][2] : i \in 1 .. Len(l.pixels)}
  IN [maxC |-> Greatest(cols), minC |-> Least(cols),
      maxR |-> Greatest(rows), minR |-> Least(rows)]

\* SquareBoundLayer.getCornerPixels: <<tl, tr, br, bl>> or nothing.
getCornerPixels(l) ==
  IF l.pixels = <<>> /\ (l.fromPixel = NULL \/ l.toPixel = NULL) THEN <<>>
  ELSE LET cornersOf(box) ==
             LET found == <<getPixelByRowCol(box.minR, box.minC),
                            getPixelByRowCol(box.minR, box.maxC),
                            getPixelByRowCol(box.maxR, box.maxC),
                            getPixelByRowCol(box.maxR, box.minC)>>
             IN IF \A i \in 1 .. 4 : found[i] # NULL THEN found ELSE <<>>
       IN cornersOf(IF l.pixels # <<>> THEN getMinMaxRowsCols(l)
                    ELSE [maxC |-> Greatest({l.fromPixel[2], l.toPixel[2]}),
                          minC |-> Least({l.fromPixel[2], l.toPixel[2]}),
                          maxR |-> Greatest({l.fromPixel[1], l.toPixel[1]}),
                          minR |-> Least({l.fromPixel[1], l.toPixel[1]})])

\* roundHalf(halves / 2): the nearest integer, a half going up.
roundHalf(halves) == (halves + 1) \div 2

\* SquareLayer.getKeyedJointPixels: the corners and the cells beside the
\* middle of each side.
SquareKeyedJointPixels(l) ==
  LET keyed(tl, tr, br, bl, midRow, midCol) ==
        [k \in {"tl", "tr", "br", "bl", "t", "r", "b", "l"} |->
           CASE k = "tl" -> tl
             [] k = "tr" -> tr
             [] k = "br" -> br
             [] k = "bl" -> bl
             [] k = "t" -> getPixelByRowCol(tl[1] - 1, midCol)
             [] k = "r" -> getPixelByRowCol(midRow, tr[2] + 1)
             [] k = "b" -> getPixelByRowCol(bl[1] + 1, midCol)
             [] k = "l" -> getPixelByRowCol(midRow, tl[2] - 1)]
      ofCorners(corners) ==
        IF Len(corners) < 4
        THEN IF l.fromPixel # NULL THEN [k \in {"tl"} |-> l.fromPixel]
             ELSE [k \in {} |-> NULL]
        ELSE keyed(corners[1], corners[2], corners[3], corners[4],
                   corners[1][1] + roundHalf(corners[4][1] - corners[1][1]),
                   corners[1][2] + roundHalf(corners[2][2] - corners[1][2]))
  IN ofCorners(getCornerPixels(l))

\* DiamondLayer.getExtremeApexPixels: the four apexes around the centre
\* fromPixel (NULL for one off the grid), or nothing without both anchors.
\* With canvas.pixelWidthDivider = 0.5 the horizontal radius is the column
\* distance.
getExtremeApexPixels(l) ==
  LET abs(n) == IF n < 0 THEN -n ELSE n
      around(fp, hRadius, wRadiusChars) ==
        [topApex |-> getPixelByRowCol(fp[1] - hRadius, fp[2]),
         bottomApex |-> getPixelByRowCol(fp[1] + hRadius, fp[2]),
         leftApex |-> getPixelByRowCol(fp[1], fp[2] - wRadiusChars),
         rightApex |-> getPixelByRowCol(fp[1], fp[2] + wRadiusChars)]
  IN IF l.fromPixel = NULL \/ l.toPixel = NULL THEN NULL
     ELSE around(l.fromPixel, abs(l.toPixel[1] - l.fromPixel[1]),
                 abs(l.toPixel[2] - l.fromPixel[2]))

\* DiamondLayer.getKeyedJointPixels: the apexes.
DiamondKeyedJointPixels(l) ==
  LET keyed(extremes) ==
        [k \in {"t", "r", "b", "l"} |->
           CASE k = "t" -> extremes.topApex
             [] k = "r" -> extremes.rightApex
             [] k = "b" -> extremes.bottomApex
             [] k = "l" -> extremes.leftApex]
  IN IF getExtremeApexPixels(l) = NULL
     THEN IF l.fromPixel # NULL
          THEN [k \in {"t", "r", "b", "l"} |-> l.fromPixel]
          ELSE [k \in {} |-> NULL]
     ELSE keyed(getExtremeApexPixels(l))

\* getKeyedJointPixels of the layer's class.
getKeyedJointPixels(l) ==
  IF l.type = "square" THEN SquareKeyedJointPixels(l)
  ELSE IF l.type = "diamond" THEN DiamondKeyedJointPixels(l)
  ELSE BaseKeyedJointPixels(l)

\* Object.values(this.getKeyedJointPixels()).filter(Boolean)
getJointPixels(l) ==
  LET values(kj) == {kj[k] : k \in DOMAIN kj} \ {NULL}
  IN values(getKeyedJointPixels(l))

isHappy(l) ==
  LET pixelsValid == \A i \in 1 .. Len(l.pixels) : l.pixels[i] # NULL
      jointPixelsValid == \A p \in getJointPixels(l) : p # NULL
      fromPixelValid == l.fromPixel # NULL
      toPixelValidOrNull == (l.toPixel = NULL) \/ (l.toPixel \in Pixels)
  IN pixelsValid /\ jointPixelsValid /\ fromPixelValid /\ toPixelValidOrNull

stash(l) ==
  [l EXCEPT !.stashed =
              [present |-> TRUE,
               fromPixel |-> l.fromPixel, toPixel |-> l.toPixel,
               pixels |-> l.pixels, values |-> l.values, joints |-> l.joints,
               zindex |-> l.zindex, lineForm |-> l.lineForm,
               isSelected |-> l.isSelected, tableId |-> l.tableId],
            !.sharesPixels = FALSE, !.sharesValues = FALSE,
            !.sharesJoints = FALSE]

\* rollback assigns the stashed arrays themselves, then releases the lock.
rollback(l) ==
  [l EXCEPT !.fromPixel = l.stashed.fromPixel,
            !.toPixel = l.stashed.toPixel,
            !.pixels = l.stashed.pixels,
            !.values = l.stashed.values,
            !.joints = l.stashed.joints,
            !.zindex = l.stashed.zindex,
            !.lineForm = l.stashed.lineForm,
            !.isSelected = l.stashed.isSelected,
            !.tableId = l.stashed.tableId,
            !.sharesPixels = TRUE, !.sharesValues = TRUE,
            !.sharesJoints = TRUE,
            !.commitLock = FALSE]

\* commit, up to the point where the update functions run.
commitEnter(l) ==
  LET s == IF ~l.commitLock THEN stash(l) ELSE l
  IN [s EXCEPT !.commitLock = TRUE]

\* commit, after the update functions ran without throwing.
commitFinish(l) ==
  IF ~isHappy(l) THEN [layer |-> rollback(l), value |-> FALSE]
  ELSE [layer |-> l, value |-> TRUE]

\* commit, when an update function threw.
commitCatch(l) == [layer |-> rollback(l), value |-> FALSE]

releaseCommit(l) == [l EXCEPT !.commitLock = FALSE]

\* A render that leaves the commit lock as it found it.
render_KeepsLock(l) == l

\* render: the end of a transaction (the display writes are not modelled).
render(l) == releaseCommit(l)

setFromPixel(l, p) == [l EXCEPT !.fromPixel = p]
setToPixel(l, p) == [l EXCEPT !.toPixel = p]

\* add pushes onto the live arrays in place.
add(l, p, v) ==
  IF p = NULL THEN l
  ELSE [l EXCEPT !.pixels = Append(@, p),
                 !.values = Append(@, v),
                 !.stashed.pixels =
                    IF l.sharesPixels THEN Append(@, p) ELSE @,
                 !.stashed.values =
                    IF l.sharesValues THEN Append(@, v) ELSE @]

\* move builds a new pixel array; the values array is left as it is.
move(l, verticalDiff, lateralDiff) ==
  LET newPixels ==
        [i \in 1 .. Len(l.pixels) |->
           IF l.pixels[i] # NULL
           THEN getPixelByRowCol(l.pixels[i][1] + verticalDiff,
                                 l.pixels[i][2] + lateralDiff)
           ELSE NULL]
      shifted(p) ==
        LET q == getPixelByRowCol(p[1] + verticalDiff, p[2] + lateralDiff)
        IN IF q # NULL THEN q ELSE p
  IN [l EXCEPT !.pixels = FilterNull(newPixels),
               !.sharesPixels = FALSE,
               !.fromPixel = IF @ # NULL THEN shifted(@) ELSE @,
               !.toPixel = IF @ # NULL THEN shifted(@) ELSE @]

\* FreeLayer.redraw does nothing; redrawChars sets the line form and redraws.
redraw(l) == l

redrawChars(l, lineForm) == redraw([l EXCEPT !.lineForm = lineForm])

----------------------------------------------------------------------------
(* The synchronous call chain of Layer.commit.  A commit call is entered,  *)
(* its update functions run one call at a time (each may itself call       *)
(* commit on the layer), and it returns.  While a call is active nothing   *)
(* else runs.                                                              *)

Diffs == {<<0, 1>>, <<0, -1>>, <<1, 0>>, <<-1, 0>>}

\* FreeLayer.freeChar: the one glyph free drawing adds.
freeChar == "*"

\* What a commit call has run so far: how many mutator calls, and the first.
NoMuts == [n |-> 0, first |-> [op |-> "", arg |-> <<>>]]

Noted(muts, m) == [n |-> muts.n + 1, first |-> IF muts.n = 0 THEN m ELSE muts.first]

NoLayer == NewLayer(0, "none", NULL, 0)

\* The fields the transaction protocol promises to restore.
Observed(l) ==
  [fromPixel |-> l.fromPixel, toPixel |-> l.toPixel, pixels |-> l.pixels,
   values |-> l.values, lineForm |-> l.lineForm, joints |-> l.joints]

\* Observation of the last call that returned: which call, on which layer,
\* its result and why; for a commit also what preceded it on the layer
\* (after), whether one of its update functions called commit (nested), and
\* whether its return changed the layer (undid).
NoRet ==
  [kind |-> "none", layer |-> 0, value |-> FALSE, why |-> "", after |-> "none",
   nested |-> FALSE, undid |-> FALSE]

\* atomicCommit's loop: the jobs given, those still to run, committedLayers,
\* and (observation) the layers as they were when the call began.
NoBatch ==
  [active |-> FALSE, jobs |-> <<>>, todo |-> <<>>, committed |-> <<>>,
   pre |-> <<>>]

Idle == stack = <<>> /\ ~batch.active

Top == stack[Len(stack)]

\* The mutator call m has run in the innermost commit call, giving layer l.
Ran(m, l) ==
  /\ layers' = [layers EXCEPT ![Top.layer] = l]
  /\ stack' = [stack EXCEPT ![Len(stack)].muts = Noted(@, m)]
  /\ ret' = NoRet

CanRun ==
  /\ stack # <<>>
  /\ Top.muts.n < (IF Len(stack) > 1 THEN MaxNestedMut
                   ELSE IF batch.active THEN MaxJobMut ELSE MaxMut)

histVars == <<layerHistory, historyCursor, layerGroups, layerGroupHistory, hist>>

\* layer.commit(...) called from outside any commit.
BeginCommit(i) ==
  /\ Idle
  /\ i \in DOMAIN layers
  /\ layers' = [layers EXCEPT ![i] = commitEnter(@)]
  /\ stack' = <<[layer |-> i, pre |-> layers[i], muts |-> NoMuts,
                 nested |-> FALSE,
                 after |-> IF ret.layer = i THEN ret.kind ELSE "none"]>>
  /\ ret' = NoRet
  /\ UNCHANGED <<batch, histVars, canvas, editingTextLayer>>

\* An update function calls commit on its own layer.
NestedCommit ==
  /\ CanRun
  /\ Len(stack) < MaxDepth
  /\ layers' = [layers EXCEPT ![Top.layer] = commitEnter(@)]
  /\ stack' = Append([stack EXCEPT ![Len(stack)].muts =
                                       Noted(@, [op |-> "commit", arg |-> <<>>]),
                                   ![Len(stack)].nested = TRUE],
                     [layer |-> Top.layer, pre |-> layers[Top.layer],
                      muts |-> NoMuts, nested |-> FALSE, after |-> "none"])
  /\ ret' = NoRet
  /\ UNCHANGED <<batch, histVars, canvas, editingTextLayer>>

ApplyMove(d) ==
  /\ CanRun
  /\ Ran([op |-> "move", arg |-> d], move(layers[Top.layer], d[1], d[2]))
  /\ UNCHANGED <<batch, histVars, canvas, editingTextLayer>>

ApplySetFromPixel(p) ==
  /\ CanRun
  /\ Ran([op |-> "setFromPixel", arg |-> p], setFromPixel(layers[Top.layer], p))
  /\ UNCHANGED <<batch, histVars, canvas, editingTextLayer>>

ApplyAdd(p) ==
  /\ CanRun
  /\ Len(layers[Top.layer].pixels) < MaxPixels
  /\ Len(layers[Top.layer].values) < MaxPixels    \* move never shortens values
  /\ Ran([op |-> "add", arg |-> p], add(layers[Top.layer], p, freeChar))
  /\ UNCHANGED <<batch, histVars, canvas, editingTextLayer>>

ApplyRedrawChars(lf) ==
  /\ CanRun
  /\ Ran([op |-> "redrawChars", arg |-> <<>>], redrawChars(layers[Top.layer], lf))
  /\ UNCHANGED <<batch, histVars, canvas, editingTextLayer>>

\* The innermost commit call returns r (a layer and a value) for reason why.
Returns(r, why) ==
  /\ layers' = [layers EXCEPT ![Top.layer] = r.layer]
  /\ stack' = SubSeq(stack, 1, Len(stack) - 1)
  /\ ret' = [kind |-> "commit", layer |-> Top.layer, value |-> r.value,
             why |-> why, after |-> Top.after, nested |-> Top.nested,
             undid |-> Observed(r.layer) # Observed(layers[Top.layer])]

\* An update function throws: the innermost commit catches it.
MutatorThrows ==
  /\ CanRun
  /\ Returns(commitCatch(layers[Top.layer]), "threw")
  /\ UNCHANGED <<batch, histVars, canvas, editingTextLayer>>

\* The update functions are done: commit judges the layer and returns.
CommitReturn ==
  /\ stack # <<>>
  /\ LET r == commitFinish(layers[Top.layer])
     IN Returns(r, IF r.value THEN "happy" ELSE "unhappy")
  /\ UNCHANGED <<batch, histVars, canvas, editingTextLayer>>

Render(i) ==
  /\ Idle
  /\ i \in DOMAIN layers
  /\ layers[i].commitLock     \* otherwise nothing modelled changes
  /\ layers' = [layers EXCEPT ![i] = render(@)]
  /\ ret' = [NoRet EXCEPT !.kind = "render", !.layer = i]
  /\ UNCHANGED <<stack, batch, histVars, canvas, editingTextLayer>>

----------------------------------------------------------------------------
(* LayerManager.atomicCommit.  A job is the index of its layer in layers,  *)
(* or 0 for a job whose layer is missing; its function is whatever the     *)
(* update-function steps above do while its commit call is active.         *)

RECURSIVE RollbackAll(_, _)
\* committedLayers.forEach(l => l.rollback())
RollbackAll(ls, committed) ==
  IF committed = <<>> THEN ls
  ELSE RollbackAll([ls EXCEPT ![Head(committed)] = rollback(@)],
                   Tail(committed))

AtomicRet(value, why) ==
  [NoRet EXCEPT !.kind = "atomic", !.value = value, !.why = why]

\* The loop of atomicCommit reaches the job at the head of b.todo.
AtomicLoop(b) ==
  IF b.todo = <<>>
  THEN /\ layers' = layers
       /\ stack' = <<>>
       /\ batch' = NoBatch
       /\ ret' = AtomicRet(TRUE, "done")
  ELSE IF Head(b.todo) \notin DOMAIN layers
  THEN /\ layers' = RollbackAll(layers, b.committed)
       /\ stack' = <<>>
       /\ batch' = NoBatch
       /\ ret' = AtomicRet(FALSE, "invalid job")
  ELSE /\ layers' = [layers EXCEPT ![Head(b.todo)] = commitEnter(@)]
       /\ stack' = <<[layer |-> Head(b.todo), pre |-> layers[Head(b.todo)],
                      muts |-> NoMuts, nested |-> FALSE, after |-> "none"]>>
       /\ batch' = b
       /\ ret' = NoRet

\* atomicCommit(...jobs) is called.
AtomicCommit(jobs) ==
  /\ Idle
  /\ AtomicLoop([active |-> TRUE, jobs |-> jobs, todo |-> jobs,
                 committed |-> <<>>, pre |-> layers])
  /\ UNCHANGED <<histVars, canvas, editingTextLayer>>

\* The commit of the current job has returned.
AtomicStep ==
  /\ batch.active
  /\ stack = <<>>
  /\ IF ~ret.value
     THEN /\ layers' = RollbackAll(layers, batch.committed)
          /\ stack' = <<>>
          /\ batch' = NoBatch
          /\ ret' = AtomicRet(FALSE, "job failed")
     ELSE AtomicLoop([batch EXCEPT !.todo = Tail(@),
                                   !.committed = Append(@, Head(batch.todo))])
  /\ UNCHANGED <<histVars, canvas, editingTextLayer>>

\* A free layer drawn at one pixel (FreeLayer.drawLayer of the first point).
DrawnFreeLayer(id, p, z) ==
  [NewLayer(id, "free", p, z) EXCEPT !.toPixel = p, !.pixels = <<p>>,
                                     !.values = <<freeChar>>]

\* Observation of the manager's operations: the last one and the layer it
\* was about; for a run of undos followed by redos their numbers and the live
\* state before the run; for findJoints the coincidences it met; for a move
\* of the selection its offset and the layers as moveLayersAtomically found
\* (origin) and left (moved) them; for an operation of the group manager
\* the ids it was given; for decodeLayers the records it was given and the
\* layers it returned; for import the kind of document it was given; for
\* both what reportError was called with.
NoHist ==
  [op |-> "none", layer |-> 0, undos |-> 0, redos |-> 0, coinciding |-> {},
   diff |-> <<0, 0>>, origin |-> <<>>, moved |-> <<>>, ids |-> <<>>,
   doc |-> "", records |-> <<>>, decoded |-> <<>>, reported |-> <<>>,
   key |-> <<>>, typed |-> <<>>, committed |-> FALSE,
   activePixel |-> <<>>, lastPixel |-> <<>>,
   pc |-> 0, steps |-> <<>>, saved |-> <<>>, notified |-> FALSE,
   state |-> 0, jointKey |-> "",
   before |-> [layers |-> <<>>, groups |-> <<>>, n |-> 0, captured |-> FALSE]]

\* An entry of layerGroupHistory: the stored group list, and whether its
\* arrays are the live group arrays.
GroupEntry(groups, shared) == [groups |-> groups, shared |-> shared]

\* new LayerManager(), new GroupManager()
HistInit ==
  /\ layerHistory = <<<<>>>>
  /\ historyCursor = 0
  /\ layerGroups = <<>>
  /\ layerGroupHistory = <<GroupEntry(<<>>, FALSE)>>
  /\ hist = NoHist

InitTx ==
  /\ canvas = Canvas(rowCount, colCount)
  /\ editingTextLayer = 0
  /\ \E p \in Pixels : layers = <<NewLayer(1, "free", p, 1)>>
  /\ stack = <<>>
  /\ ret = NoRet
  /\ batch = NoBatch
  /\ HistInit

NextTx ==
  \/ \E i \in DOMAIN layers : BeginCommit(i)
  \/ NestedCommit
  \/ \E d \in Diffs : ApplyMove(d)
  \/ \E p \in {NULL} : ApplySetFromPixel(p)
  \/ \E p \in Pixels : ApplyAdd(p)
  \/ \E lf \in LineForms : ApplyRedrawChars(lf)
  \/ MutatorThrows
  \/ CommitReturn
  \/ \E i \in DOMAIN layers : Render(i)

SpecTx == InitTx /\ [][NextTx]_vars

\* Job lists: up to MaxJobs jobs on distinct layers, or with a missing layer.
JobLists ==
  {js \in UNION {[1 .. n -> 0 .. 2] : n \in 0 .. MaxJobs} :
     \A i, j \in DOMAIN js : i # j => js[i] # js[j]}

InitAtomic ==
  /\ canvas = Canvas(rowCount, colCount)
  /\ editingTextLayer = 0
  /\ layers = <<NewLayer(1, "free", <<0, 0>>, 1),
                NewLayer(2, "free", <<0, colCount - 1>>, 2)>>
  /\ stack = <<>>
  /\ ret = NoRet
  /\ batch = NoBatch
  /\ HistInit

NextAtomic ==
  \/ \E js \in JobLists : AtomicCommit(js)
  \/ AtomicStep
  \/ NestedCommit
  \/ \E d \in {<<0, 1>>} : ApplyMove(d)
  \/ \E p \in {NULL} : ApplySetFromPixel(p)
  \/ \E p \in {<<0, 0>>} : ApplyAdd(p)
  \/ MutatorThrows
  \/ CommitReturn
  \/ \E i \in DOMAIN layers : Render(i)

SpecAtomic == InitAtomic /\ [][NextAtomic]_vars

----------------------------------------------------------------------------
(* Properties of the transaction protocol.                                 *)

\* The step in which an outermost commit call, entered with the commit lock
\* released, returns.
OutermostReturns ==
  /\ Len(stack) = 1
  /\ ~Top.pre.commitLock
  /\ stack' = <<>>
  /\ ret'.kind = "commit"

\* After the step, the layer of the returning call is as it was at its start.
RestoredToPre == Observed(layers'[Top.layer]) = Observed(Top.pre)

\* C1: a commit call whose update functions leave the layer unhappy returns
\* false, and the layer's anchors, pixels, values, lineForm and joints equal
\* their values from immediately before that call.
C1_UnhappyCommitRestores ==
  [][(OutermostReturns /\ ret'.why = "unhappy")
       => (ret'.value = FALSE /\ RestoredToPre)]_vars

\* Moving l by d would put one of its occupied cells or anchors off the grid.
LeavesGrid(l, d) ==
  LET off(p) == p # NULL /\ getPixelByRowCol(p[1] + d[1], p[2] + d[2]) = NULL
  IN \/ \E i \in 1 .. Len(l.pixels) : off(l.pixels[i])
     \/ off(l.fromPixel)
     \/ off(l.toPixel)

\* C3: a commit whose one update function is a move that would place an
\* occupied cell or an anchor outside the grid returns false and leaves the
\* layer's anchors and occupied cells unchanged.
C3_OffGridMoveRollsBack ==
  [][(/\ OutermostReturns
      /\ ret'.why # "threw"
      /\ Top.muts.n = 1
      /\ Top.muts.first.op = "move"
      /\ LeavesGrid(Top.pre, Top.muts.first.arg))
       => (/\ ret'.value = FALSE
           /\ layers'[Top.layer].fromPixel = Top.pre.fromPixel
           /\ layers'[Top.layer].toPixel = Top.pre.toPixel
           /\ layers'[Top.layer].pixels = Top.pre.pixels
           /\ layers'[Top.layer].values = Top.pre.values)]_vars

\* C4: a commit call one of whose update functions throws returns false, and
\* every field of the layer is restored to its value from before the call.
C4_ThrowRestores ==
  [][(OutermostReturns /\ ret'.why = "threw")
       => (/\ ret'.value = FALSE
           /\ RestoredToPre
           /\ layers'[Top.layer].zindex = Top.pre.zindex
           /\ layers'[Top.layer].isSelected = Top.pre.isSelected
           /\ layers'[Top.layer].tableId = Top.pre.tableId)]_vars

\* C8: when an update function of a commit call has itself called commit on
\* the layer and the outermost call returns false, the layer equals its state
\* from before the outermost call began.
C8_NestedCommitKeepsOuterSnapshot ==
  [][(OutermostReturns /\ Top.nested /\ ret'.value = FALSE)
       => RestoredToPre]_vars

\* A commit call that is not nested, follows a commit on the same layer that
\* returned true, and whose update functions call no commit, returns false.
SecondCommitFails ==
  /\ Len(stack) = 1
  /\ stack' = <<>>
  /\ ret'.kind = "commit"
  /\ ~Top.nested
  /\ ret'.value = FALSE

----------------------------------------------------------------------------
(* Properties of atomicCommit.                                             *)

\* The layers named by the jobs of the running atomicCommit call.
Participants == {batch.jobs[k] : k \in DOMAIN batch.jobs} \cap DOMAIN layers

\* The step in which atomicCommit, begun with the commit lock of every
\* participating layer released, returns because a job's commit failed.
AtomicFails ==
  /\ batch.active
  /\ ~batch'.active
  /\ stack = <<>>
  /\ ret.kind = "commit"
  /\ ~ret.value
  /\ \A i \in Participants : ~batch.pre[i].commitLock

\* C2: if the commit of a participating layer fails, atomicCommit returns
\* false and every participating layer, those already committed in the batch
\* included, has the anchors and occupied cells it had when the batch began.
C2_AtomicCommitAllOrNothing ==
  [][AtomicFails
       => (/\ ret'.value = FALSE
           /\ \A i \in Participants :
                /\ layers'[i].fromPixel = batch.pre[i].fromPixel
                /\ layers'[i].toPixel = batch.pre[i].toPixel
                /\ layers'[i].pixels = batch.pre[i].pixels
                /\ layers'[i].values = batch.pre[i].values)]_vars

----------------------------------------------------------------------------
(* LayerManager and GroupManager: refresh, tidy, capture, undo and redo.   *)

\* The history size both capture methods test against.
HistoryLimit == 50

LayerIds == 1 .. MaxLayers

getHighestZindex(ls) ==
  LET zs == {0} \cup {ls[k].zindex : k \in DOMAIN ls}
  IN CHOOSE z \in zs : \A y \in zs : y <= z

clearInternalPixelsOnly(l) ==
  [l EXCEPT !.pixels = <<>>, !.values = <<>>,
            !.sharesPixels = FALSE, !.sharesValues = FALSE]

renderAll(ls) == [k \in DOMAIN ls |-> render(ls[k])]

\* refresh, up to the call of its update function: every layer's cell lists
\* are cleared.
refreshCleared(ls) == [k \in DOMAIN ls |-> clearInternalPixelsOnly(ls[k])]

\* refresh, from the return of its update function, which made updated of the
\* cleared layers: every layer is rendered.
refresh(updated) == renderAll(updated)

\* redrawAll: a refresh whose update function redraws every layer twice.
redrawAll(ls) ==
  LET redrawn(xs) == [k \in DOMAIN xs |-> redraw(redraw(xs[k]))]
  IN refresh(redrawn(refreshCleared(ls)))

\* After a refresh no stored layer holds the arrays of a live layer.
Detached(h) ==
  [e \in DOMAIN h |->
     [k \in DOMAIN h[e] |->
        [h[e][k] EXCEPT !.aliasPixels = FALSE, !.aliasValues = FALSE]]]

getPixelIndex(l, p) ==
  IF \E i \in 1 .. Len(l.pixels) : l.pixels[i] = p
  THEN CHOOSE i \in 1 .. Len(l.pixels) :
         l.pixels[i] = p /\ \A j \in 1 .. (i - 1) : l.pixels[j] # p
  ELSE 0

addOrUpdatePixel(l, p, v) ==
  LET existingIndex == getPixelIndex(l, p)
  IN IF existingIndex # 0
     THEN [l EXCEPT !.values[existingIndex] = v,
                    !.stashed.values =
                       IF l.sharesValues THEN [@ EXCEPT ![existingIndex] = v]
                       ELSE @]
     ELSE add(l, p, v)

\* FreeLayer.drawLayer with a single free character selected.
FreeLayer_drawLayer(l, activePixel) ==
  IF activePixel = NULL THEN l
  ELSE setToPixel(setFromPixel(addOrUpdatePixel(l, activePixel, freeChar),
                               activePixel),
                  activePixel)

\* Layer.empty: the cell lists are replaced by new empty arrays.
empty(l) ==
  [l EXCEPT !.pixels = <<>>, !.values = <<>>,
            !.sharesPixels = FALSE, !.sharesValues = FALSE]

\* roundHalf(num / den), den > 0: the nearest integer, a half going up.
roundHalfOf(num, den) == (2 * num + den) \div (2 * den)

\* The glyph of a line from fp to tp, without arrows: chosen by its slope.
midLineChar(dRow, dCol, totalSteps) ==
  LET abs(n) == IF n < 0 THEN -n ELSE n
  IN IF totalSteps = 0 \/ 10 * abs(dRow) < 3 * totalSteps THEN "lateral"
     ELSE IF 100 * abs(dCol) < 35 * totalSteps THEN "vertical"
     ELSE IF (dRow > 0 /\ dCol > 0) \/ (dRow < 0 /\ dCol < 0) THEN "diagBack"
     ELSE "diagForward"

\* The glyphs of the ends of a line from fp to tp: <<startChar, endChar>>.
\* An enabled arrowhead replaces the line's glyph, pointing along the axis
\* the line mostly runs on (with canvas.pixelWidthDivider = 0.5 the line is
\* "more vertical" when Math.abs(dRow) > Math.abs(dCol)).
endChars(l, dRow, dCol, mid) ==
  LET abs(n) == IF n < 0 THEN -n ELSE n
      hasArrowLeft == "hasArrowLeft" \in DOMAIN l /\ l.hasArrowLeft
      hasArrowRight == "hasArrowRight" \in DOMAIN l /\ l.hasArrowRight
      vertical == abs(dRow) > abs(dCol)
      startArrow == IF vertical
                    THEN IF dRow < 0 THEN "arrow-down" ELSE "arrow-up"
                    ELSE IF dCol < 0 THEN "arrow-right" ELSE "arrow-left"
      endArrow == IF vertical
                  THEN IF dRow < 0 THEN "arrow-up" ELSE "arrow-down"
                  ELSE IF dCol < 0 THEN "arrow-left" ELSE "arrow-right"
  IN <<IF hasArrowLeft THEN startArrow ELSE mid,
       IF hasArrowRight THEN endArrow ELSE mid>>

\* A rasterizer that leaves out the cell of the end anchor.
FreeLineLayer_drawLayer_StopsShort(l, activePixel) ==
  LET drawn(x) ==
        IF x.fromPixel = NULL \/ x.toPixel = NULL THEN empty(x)
        ELSE add(empty(x), x.fromPixel, "lateral")
  IN drawn(setToPixel(l, activePixel))

\* FreeLineLayer.drawLayer: toPixel is set, the cells are emptied and the
\* line from fromPixel to toPixel is stepped in totalSteps equal steps; the
\* first and the last cell get the glyphs of the ends.  A line of one cell
\* is the lateral glyph, or the right arrow when an arrowhead is enabled.
FreeLineLayer_drawLayer(l, activePixel) ==
  LET abs(n) == IF n < 0 THEN -n ELSE n
      anyArrow == \/ "hasArrowLeft" \in DOMAIN l /\ l.hasArrowLeft
                  \/ "hasArrowRight" \in DOMAIN l /\ l.hasArrowRight
      charToUse(i, totalSteps, mid, ends) ==
        IF i = totalSteps + 1 THEN ends[2]
        ELSE IF i = 1 THEN ends[1]
        ELSE mid
      stepped(x, fp, dRow, dCol, totalSteps) ==
        IF totalSteps = 0
        THEN add(x, fp, IF anyArrow THEN "arrow-right" ELSE "lateral")
        ELSE [x EXCEPT
                !.pixels =
                   [i \in 1 .. (totalSteps + 1) |->
                      getPixelByRowCol(
                        roundHalfOf(fp[1] * totalSteps + (i - 1) * dRow,
                                    totalSteps),
                        roundHalfOf(fp[2] * totalSteps + (i - 1) * dCol,
                                    totalSteps))],
                !.values =
                   [i \in 1 .. (totalSteps + 1) |->
                      charToUse(i, totalSteps,
                                midLineChar(dRow, dCol, totalSteps),
                                endChars(l, dRow, dCol,
                                         midLineChar(dRow, dCol, totalSteps)))]]
      between(x, fp, dRow, dCol) ==
        stepped(x, fp, dRow, dCol,
                IF abs(dRow) > abs(dCol) THEN abs(dRow) ELSE abs(dCol))
      drawn(x) ==
        IF x.fromPixel = NULL \/ x.toPixel = NULL THEN empty(x)
        ELSE between(empty(x), x.fromPixel,
                     x.toPixel[1] - x.fromPixel[1],
                     x.toPixel[2] - x.fromPixel[2])
  IN drawn(setToPixel(l, activePixel))

RECURSIVE addAll(_, _)
\* this.add(pixel, value) for every <<pixel, value>> of cells, in order.
addAll(l, cells) ==
  IF cells = <<>> THEN l
  ELSE addAll(add(l, Head(cells)[1], Head(cells)[2]), Tail(cells))

\* SquareLayer.drawLayer: toPixel is set, the cells are emptied, and the
\* corners, the horizontal and the vertical sides are added.
SquareLayer_drawLayer(l, activePixel) ==
  LET sides(x, r1, c1, r2, c2) ==
        LET corners ==
              <<<<getPixelByRowCol(r1, c1), "top-left">>>>
              \o (IF c1 # c2 THEN <<<<getPixelByRowCol(r1, c2), "top-right">>>> ELSE <<>>)
              \o (IF r1 # r2 THEN <<<<getPixelByRowCol(r2, c1), "bottom-left">>>> ELSE <<>>)
              \o (IF r1 # r2 /\ c1 # c2
                  THEN <<<<getPixelByRowCol(r2, c2), "bottom-right">>>> ELSE <<>>)
            across(c) ==
              <<<<getPixelByRowCol(r1, c), "lateral">>>>
              \o (IF r1 # r2 THEN <<<<getPixelByRowCol(r2, c), "lateral">>>> ELSE <<>>)
            down(r) ==
              <<<<getPixelByRowCol(r, c1), "vertical">>>>
              \o (IF c1 # c2 THEN <<<<getPixelByRowCol(r, c2), "vertical">>>> ELSE <<>>)
            horizontal[c \in (c1 + 1) .. c2] ==
              IF c = c2 THEN <<>> ELSE across(c) \o horizontal[c + 1]
            vertical[r \in (r1 + 1) .. r2] ==
              IF r = r2 THEN <<>> ELSE down(r) \o vertical[r + 1]
        IN IF r1 = r2 /\ c1 = c2
           THEN add(x, getPixelByRowCol(r1, c1), "top-left")
           ELSE addAll(x, corners
                            \o (IF c1 < c2 THEN horizontal[c1 + 1] ELSE <<>>)
                            \o (IF r1 < r2 THEN vertical[r1 + 1] ELSE <<>>))
      drawn(x) ==
        IF x.fromPixel = NULL \/ x.toPixel = NULL THEN empty(x)
        ELSE sides(empty(x),
                   Least({x.fromPixel[1], x.toPixel[1]}),
                   Least({x.fromPixel[2], x.toPixel[2]}),
                   Greatest({x.fromPixel[1], x.toPixel[1]}),
                   Greatest({x.fromPixel[2], x.toPixel[2]}))
  IN drawn(setToPixel(l, activePixel))

\* charManager.getDiamondCorner(lineForm, orientation): the glyph kept for
\* the apexes of that orientation.
getDiamondCorner(orientation) ==
  IF orientation = "vertical" THEN "apexVertical" ELSE "apexLateral"

\* drawDiamondLine of DiamondLayer.drawLayer: the cells from p1 to p2 in
\* steps equal steps, each with char.
drawDiamondLine(p1, p2, char) ==
  LET abs(n) == IF n < 0 THEN -n ELSE n
      line(dr, dc, steps) ==
        IF steps = 0 THEN <<<<getPixelByRowCol(p1[1], p1[2]), char>>>>
        ELSE [i \in 1 .. (steps + 1) |->
                <<getPixelByRowCol(
                    roundHalfOf(p1[1] * steps + (i - 1) * dr, steps),
                    roundHalfOf(p1[2] * steps + (i - 1) * dc, steps)),
                  char>>]
      between(dr, dc) == line(dr, dc, IF abs(dr) > abs(dc) THEN abs(dr) ELSE abs(dc))
  IN between(p2[1] - p1[1], p2[2] - p1[2])

\* DiamondLayer.addOrUpdatePixelValue: the value at the first entry of the
\* cell is replaced, or the cell is added.
addOrUpdatePixelValue(l, pixel, value) ==
  IF pixel = NULL THEN l
  ELSE IF getPixelIndex(l, pixel) # 0
  THEN [l EXCEPT !.values[getPixelIndex(l, pixel)] = value]
  ELSE add(l, pixel, value)

\* DiamondLayer.drawLayer: toPixel is set, the cells are emptied, the four
\* edges are stepped from apex to apex and then the apex glyphs are set.
DiamondLayer_drawLayer(l, activePixel) ==
  LET apexVert == getDiamondCorner("vertical")
      apexLat == getDiamondCorner("lateral")
      apexes(x, e) ==
        addOrUpdatePixelValue(
          addOrUpdatePixelValue(
            addOrUpdatePixelValue(
              addOrUpdatePixelValue(x, e.topApex, apexVert),
              e.bottomApex, apexVert),
            e.leftApex, apexLat),
          e.rightApex, apexLat)
      edges(x, e) ==
        addAll(x, drawDiamondLine(e.topApex, e.rightApex, "diagBack")
                    \o drawDiamondLine(e.rightApex, e.bottomApex, "diagForward")
                    \o drawDiamondLine(e.bottomApex, e.leftApex, "diagBack")
                    \o drawDiamondLine(e.leftApex, e.topApex, "diagForward"))
      ofExtremes(x, e) ==
        IF e = NULL \/ \E k \in DOMAIN e : e[k] = NULL
        THEN IF x.fromPixel = x.toPixel THEN add(x, x.fromPixel, apexVert) ELSE x
        ELSE apexes(edges(x, e), e)
      drawn(x) ==
        IF x.fromPixel = NULL \/ x.toPixel = NULL THEN empty(x)
        ELSE ofExtremes(empty(x), getExtremeApexPixels(x))
  IN drawn(setToPixel(l, activePixel))

\* drawLayer of the layer's class.
drawLayer(l, activePixel) ==
  IF l.type = "line" THEN FreeLineLayer_drawLayer(l, activePixel)
  ELSE IF l.type = "square" THEN SquareLayer_drawLayer(l, activePixel)
  ELSE IF l.type = "diamond" THEN DiamondLayer_drawLayer(l, activePixel)
  ELSE FreeLayer_drawLayer(l, activePixel)

\* Layer.draw(activePixel): the drawing wrapped in a commit.  (The layers
\* drawn here, free layers and lines, have no attachment points, so draw
\* does not go on to resizeJoinerLayers.)
draw(l, activePixel) ==
  IF activePixel = NULL /\ l.toPixel = NULL THEN l
  ELSE commitFinish(drawLayer(commitEnter(l), activePixel)).layer

\* A layer stored in the history that wrongly keeps the arrays of its source.
copy_SharesArrays(l, identical, newId) ==
  [l EXCEPT !.aliasPixels = TRUE, !.aliasValues = TRUE]

\* Layer.copy(identical): a new instance with new arrays; BaseLineLayer.copy
\* adds the arrow flags, TextLayer.copy the contents (and, for an identical
\* copy, the cursor and noWrites), TableLayer.copy the table's maps.
copy(l, identical, newId) ==
  LET layerCopy ==
        [NewLayer(IF identical THEN l.id ELSE newId, l.type, l.fromPixel,
                  IF identical THEN l.zindex ELSE l.zindex + 1)
           EXCEPT !.toPixel = l.toPixel,
                  !.pixels = l.pixels,
                  !.values = l.values,
                  !.lineForm = l.lineForm,
                  !.tableId = l.tableId,
                  !.joints = IF identical THEN l.joints ELSE <<>>,
                  !.isSelected = IF identical THEN l.isSelected ELSE FALSE]
  IN IF "contents" \in DOMAIN l
     THEN layerCopy @@ [contents |-> l.contents,
                        cursor |-> IF identical THEN l.cursor ELSE 0,
                        noWrites |-> IF identical THEN l.noWrites ELSE FALSE,
                        lastCursorPixel |-> NULL]
     ELSE IF "hasArrowLeft" \in DOMAIN l
     THEN layerCopy @@ [hasArrowLeft |-> l.hasArrowLeft,
                        hasArrowRight |-> l.hasArrowRight]
     ELSE IF "tblRows" \in DOMAIN l
     THEN layerCopy @@ [tblRows |-> l.tblRows, tblCols |-> l.tblCols,
                        tblColWidths |-> l.tblColWidths,
                        tblRowHeights |-> l.tblRowHeights,
                        textLayers |-> IF identical THEN l.textLayers ELSE <<>>,
                        cellTextArchive |-> l.cellTextArchive]
     ELSE layerCopy

\* copy returns null for a layer without fromPixel; the nulls are dropped.
copyLayersIdentically(layersToCopy) ==
  LET copyable(l) == l.fromPixel # NULL
      kept == SelectSeq(layersToCopy, copyable)
  IN [k \in DOMAIN kept |-> copy(kept[k], TRUE, 0)]

\* BaseLineLayer.getEndPixels
getEndPixels(l) ==
  IF l.fromPixel # NULL /\ l.toPixel # NULL THEN <<l.fromPixel, l.toPixel>>
  ELSE <<>>

\* getJoinerPixels of the layer's class: the ends of a line, else none.
getJoinerPixels(l) == IF l.type = "line" THEN getEndPixels(l) ELSE <<>>

LayerWithId(ls, id) ==
  IF \E k \in DOMAIN ls : ls[k].id = id
  THEN ls[CHOOSE k \in DOMAIN ls :
            ls[k].id = id /\ \A j \in 1 .. (k - 1) : ls[j].id # id]
  ELSE NoLayer

\* Layer.tidyJoints, with ls the live layers.
tidyJoints(l, ls) ==
  LET isEnd(jp, p) == \E i \in DOMAIN jp : jp[i] # NULL /\ jp[i] = p
      tidied(currentKeyedJoints) ==
        LET valid(joint) ==
              /\ \E k \in DOMAIN ls : ls[k].id = joint.layerId
              /\ joint.jointKey \in DOMAIN currentKeyedJoints
              /\ currentKeyedJoints[joint.jointKey] # NULL
              /\ isEnd(getJoinerPixels(LayerWithId(ls, joint.layerId)),
                       currentKeyedJoints[joint.jointKey])
        IN [l EXCEPT !.joints = SelectSeq(@, valid), !.sharesJoints = FALSE]
  IN tidied(getKeyedJointPixels(l))

\* LayerManager.tidyAllJoints
tidyAllJoints(ls, deletedLayerIds) ==
  IF deletedLayerIds = {} THEN ls
  ELSE LET kept(joint) == joint.layerId \notin deletedLayerIds
           filtered == [k \in DOMAIN ls |->
                          [ls[k] EXCEPT !.joints = SelectSeq(@, kept),
                                        !.sharesJoints = FALSE]]
       IN [k \in DOMAIN filtered |-> tidyJoints(filtered[k], filtered)]

\* A tidy that keeps the groups it has emptied or left with one member.
tidy_KeepsSmallGroups(groups, deletedLayerIds) ==
  LET keptId(id) == id \notin deletedLayerIds
  IN [k \in DOMAIN groups |-> SelectSeq(groups[k], keptId)]

\* GroupManager.tidy
tidy(groups, deletedLayerIds) ==
  IF deletedLayerIds = {} THEN groups
  ELSE LET keptId(id) == id \notin deletedLayerIds
           filtered == [k \in DOMAIN groups |-> SelectSeq(groups[k], keptId)]
           big(g) == Len(g) > 1
       IN SelectSeq(filtered, big)

\* LayerManager.tidyAllTables: a table forgets the cells whose text layer was
\* deleted.
tidyAllTables(ls, deletedLayerIds) ==
  LET kept(m) == {cellId \in DOMAIN m : m[cellId] \notin deletedLayerIds}
      tidyTable(l) ==
        IF "textLayers" \in DOMAIN l
        THEN [l EXCEPT !.textLayers = [cellId \in kept(@) |-> @[cellId]]]
        ELSE l
  IN [k \in DOMAIN ls |-> tidyTable(ls[k])]

\* LayerManager.tidyLayers: layers of another class than text without cells
\* are deleted, and so are the text layers without contents that belong to
\* no table, are not selected and are not being edited; then groups, joints
\* and tables are tidied.
tidyLayers(ls, groups) ==
  LET emptyText(l) ==
        /\ l.type = "text"
        /\ "contents" \in DOMAIN l
        /\ l.contents = <<>>
        /\ l.tableId = 0
        /\ ~l.isSelected
        /\ editingTextLayer # l.id
      layersToDeleteIds ==
        {ls[k].id : k \in {j \in DOMAIN ls :
                             \/ ls[j].pixels = <<>> /\ ls[j].type # "text"
                             \/ emptyText(ls[j])}}
      keptLayer(l) == l.id \notin layersToDeleteIds
  IN IF layersToDeleteIds # {}
     THEN [layers |-> tidyAllTables(
                        tidyAllJoints(SelectSeq(ls, keptLayer), layersToDeleteIds),
                        layersToDeleteIds),
           groups |-> tidy(groups, layersToDeleteIds),
           deleted |-> TRUE]
     ELSE [layers |-> ls, groups |-> groups, deleted |-> FALSE]

\* history.pop() when it is longer than the limit, then unshift(entry).
Pushed(history, entry) ==
  <<entry>> \o (IF Len(history) > HistoryLimit
                THEN SubSeq(history, 1, Len(history) - 1)
                ELSE history)

\* A capture that stores the groups behind the oldest entry.
groupCapture_Behind(groupHistory, groups) ==
  groupHistory \o <<GroupEntry(groups, FALSE)>>

\* GroupManager.capture: the groups are cloned.
groupCapture(groupHistory, groups) ==
  Pushed(groupHistory, GroupEntry(groups, FALSE))

\* GroupManager.jumpHistory(cursor): the stored groups are cloned.
groupJumpHistory(groupHistory, cursor) ==
  IF (cursor + 1) \in DOMAIN groupHistory
  THEN groupHistory[cursor + 1].groups
  ELSE <<>>

\* The live group arrays have been replaced: no stored entry holds them.
GroupsDetached(groupHistory) ==
  [e \in DOMAIN groupHistory |-> [groupHistory[e] EXCEPT !.shared = FALSE]]

\* LayerManager.capture, of the live layers ls and groups.
Captured(ls, groups, groupHistory) ==
  /\ historyCursor' = 0
  /\ layerHistory' = Pushed(layerHistory, copyLayersIdentically(ls))
  /\ layerGroupHistory' = groupCapture(groupHistory, groups)

\* LayerManager.jumpHistory at cursor c: the live layers are rebuilt from
\* copies of the stored ones and redrawn, the groups from the stored groups.
JumpedTo(c) ==
  LET cursor == IF (c + 1) \in DOMAIN layerHistory THEN c ELSE 0
  IN /\ historyCursor' = cursor
     /\ IF (cursor + 1) \in DOMAIN layerHistory
        THEN /\ layers' = renderAll(redrawAll(
                             copyLayersIdentically(layerHistory[cursor + 1])))
             /\ layerGroups' = groupJumpHistory(layerGroupHistory, cursor)
             /\ editingTextLayer' = 0
        ELSE /\ layers' = <<>>
             /\ layerGroups' = <<>>
             /\ UNCHANGED editingTextLayer
     /\ layerHistory' = Detached(layerHistory)
     /\ layerGroupHistory' = GroupsDetached(layerGroupHistory)

\* The content of a layer, as the user and the encoder see it.
Content(l) ==
  [id |-> l.id, type |-> l.type, fromPixel |-> l.fromPixel,
   toPixel |-> l.toPixel, pixels |-> l.pixels, values |-> l.values,
   joints |-> l.joints, zindex |-> l.zindex, lineForm |-> l.lineForm,
   isSelected |-> l.isSelected, tableId |-> l.tableId]

Contents(ls) == [k \in DOMAIN ls |-> Content(ls[k])]

\* Layer.erasePixel: the cell is spliced out of the live arrays in place.
erasePixel(l, p) ==
  LET index == getPixelIndex(l, p)
      without(a) == SubSeq(a, 1, index - 1) \o SubSeq(a, index + 1, Len(a))
  IN IF index = 0 THEN l
     ELSE [l EXCEPT !.pixels = without(@),
                    !.values = without(@),
                    !.stashed.pixels = IF l.sharesPixels THEN without(@) ELSE @,
                    !.stashed.values = IF l.sharesValues THEN without(@) ELSE @]

\* The live layer has been edited in place into l: the stored layers that
\* hold its arrays show the edited arrays.
EditedInPlace(h, l) ==
  [e \in DOMAIN h |->
     [k \in DOMAIN h[e] |->
        IF h[e][k].id # l.id THEN h[e][k]
        ELSE [h[e][k] EXCEPT
                !.pixels = IF h[e][k].aliasPixels THEN l.pixels ELSE @,
                !.values = IF h[e][k].aliasValues THEN l.values ELSE @]]]

txVars == <<stack, ret, batch>>

\* Layer.drawMouseDownEvent at pixel p on empty canvas, in free-drawing mode:
\* a new layer is added in front and drawn inside a refresh.  Its id is the
\* one makeId draws: L followed by randomInt(10000, 99999), here id.
DrawMouseDownEventObserved(p, id, observed) ==
  /\ Idle
  /\ Len(layers) < MaxLayers
  /\ \A k \in DOMAIN layers : getPixelIndex(layers[k], p) = 0
  /\ LET newLayer == NewLayer(id, "free", p, getHighestZindex(layers) + 1)
         drawn(ls) == [ls EXCEPT ![1] = draw(@, p)]
     IN layers' = refresh(drawn(refreshCleared(<<newLayer>> \o layers)))
  /\ layerHistory' = Detached(layerHistory)
  /\ hist' = observed
  /\ UNCHANGED <<canvas, editingTextLayer, txVars, historyCursor, layerGroups, layerGroupHistory>>

DrawMouseDownEvent(p, id) ==
  DrawMouseDownEventObserved(p, id, [NoHist EXCEPT !.op = "draw", !.layer = id])

\* LayerManager.changeEvent (mouse up): triggerChanged tidies and captures.
ChangeEventObserved(observed) ==
  /\ Idle
  /\ LET tidied(t) ==
           /\ layers' = t.layers
           /\ layerGroups' = t.groups
           /\ Captured(t.layers, t.groups,
                       IF t.deleted THEN GroupsDetached(layerGroupHistory)
                       ELSE layerGroupHistory)
     IN tidied(tidyLayers(layers, layerGroups))
  /\ hist' = observed
  /\ UNCHANGED <<canvas, editingTextLayer, txVars>>

ChangeEvent == ChangeEventObserved([NoHist EXCEPT !.op = "capture"])

\* The update function of a refresh returned without touching the layers.
OnlyRefreshed ==
  /\ layers' = refresh(refreshCleared(layers))
  /\ layerHistory' = Detached(layerHistory)
  /\ UNCHANGED <<historyCursor, layerGroups, layerGroupHistory,
                 editingTextLayer>>

Capped(n) == IF n < MaxHistory THEN n ELSE MaxHistory

\* LayerManager.undoEvent: refresh(() => undo()).
UndoEvent ==
  /\ Idle
  /\ IF historyCursor >= Len(layerHistory) - 1 /\ Len(layerHistory) > 1
     THEN JumpedTo(historyCursor)
     ELSE IF Len(layerHistory) <= 1 THEN OnlyRefreshed
     ELSE JumpedTo(historyCursor + 1)
  /\ hist' = IF hist.op = "undo"
             THEN [hist EXCEPT !.undos = Capped(@ + 1)]
             ELSE [NoHist EXCEPT
                     !.op = "undo",
                     !.undos = 1,
                     !.before = [layers |-> Contents(layers),
                                 groups |-> layerGroups,
                                 n |-> Len(layerHistory) - 1,
                                 captured |-> hist.op = "capture"]]
  /\ UNCHANGED <<canvas, txVars>>

\* LayerManager.redoEvent: refresh(() => redo()).
RedoEvent ==
  /\ Idle
  /\ IF historyCursor <= 0 THEN OnlyRefreshed
     ELSE JumpedTo(historyCursor - 1)
  /\ hist' = IF hist.op \in {"undo", "redo"}
             THEN [hist EXCEPT !.op = "redo", !.redos = Capped(@ + 1)]
             ELSE [NoHist EXCEPT !.op = "redo"]
  /\ UNCHANGED <<canvas, txVars>>

\* A signature that keeps the ids in the order given.
Signature_Unsorted(g) == g

\* The signature groupLayers compares: the sorted ids.
Signature(g) == SortSeq(g, LAMBDA a, b : a < b)

\* GroupManager.groupLayers(layers), with g the positions of the layers: the
\* new group is pushed onto the live list unless a group of the same ids
\* exists.
GroupLayers(g) ==
  /\ Idle
  /\ Len(g) >= 2
  /\ LET newGroupIds == [k \in DOMAIN g |-> layers[g[k]].id]
         isNew == \A k \in DOMAIN layerGroups :
                    Signature(layerGroups[k]) # Signature(newGroupIds)
     IN /\ layerGroups' = IF isNew THEN Append(layerGroups, newGroupIds)
                         ELSE layerGroups
        /\ layerGroupHistory' =
             [e \in DOMAIN layerGroupHistory |->
                IF isNew /\ layerGroupHistory[e].shared
                THEN [layerGroupHistory[e] EXCEPT
                        !.groups = Append(@, newGroupIds)]
                ELSE layerGroupHistory[e]]
        /\ hist' = [NoHist EXCEPT !.op = "group", !.ids = newGroupIds]
  /\ UNCHANGED <<canvas, editingTextLayer, txVars, layers, layerHistory, historyCursor>>

\* layer.erasePixel(pixelId) on the live layer at position i.
LayerErasePixel(i, p) ==
  /\ Idle
  /\ i \in DOMAIN layers
  /\ getPixelIndex(layers[i], p) # 0        \* otherwise nothing changes
  /\ layers' = [layers EXCEPT ![i] = erasePixel(@, p)]
  /\ layerHistory' = EditedInPlace(layerHistory, erasePixel(layers[i], p))
  /\ hist' = [NoHist EXCEPT !.op = "erase", !.layer = layers[i].id]
  /\ UNCHANGED <<canvas, editingTextLayer, txVars, historyCursor, layerGroups, layerGroupHistory>>

\* layer.add(pixel, value) on the live layer at position i.
LayerAdd(i, p) ==
  /\ Idle
  /\ i \in DOMAIN layers
  /\ Len(layers[i].pixels) < MaxPixels
  /\ Len(layers[i].values) < MaxPixels
  /\ layers' = [layers EXCEPT ![i] = add(@, p, freeChar)]
  /\ layerHistory' = EditedInPlace(layerHistory, add(layers[i], p, freeChar))
  /\ hist' = [NoHist EXCEPT !.op = "add", !.layer = layers[i].id]
  /\ UNCHANGED <<canvas, editingTextLayer, txVars, historyCursor, layerGroups, layerGroupHistory>>

InitHist ==
  /\ canvas = Canvas(rowCount, colCount)
  /\ editingTextLayer = 0
  /\ layers = <<>>
  /\ stack = <<>>
  /\ ret = NoRet
  /\ batch = NoBatch
  /\ HistInit

LayerOrders == {g \in UNION {[1 .. n -> 1 .. MaxLayers] : n \in 2 .. MaxLayers} :
                  \A i, j \in DOMAIN g : i # j => g[i] # g[j]}

\* The ids makeId may draw that no live layer has.
FreshIds(ls) == {id \in LayerIds : \A k \in DOMAIN ls : ls[k].id # id}

NextHist ==
  \/ \E p \in Pixels, id \in FreshIds(layers) : DrawMouseDownEvent(p, id)
  \/ Len(layerHistory) < MaxHistory /\ ChangeEvent
  \/ UndoEvent
  \/ RedoEvent
  \/ \E g \in LayerOrders :
       (\A k \in DOMAIN g : g[k] \in DOMAIN layers) /\ GroupLayers(g)
  \/ \E i \in DOMAIN layers, p \in Pixels : LayerErasePixel(i, p)
  \/ \E i \in DOMAIN layers, p \in Pixels : LayerAdd(i, p)

SpecHist == InitHist /\ [][NextHist]_vars

\* The history limit is reached by capturing an empty drawing again and
\* again; undo and redo move through the entries.
NextLimit ==
  \/ ChangeEvent
  \/ UndoEvent
  \/ RedoEvent

SpecLimit == InitHist /\ [][NextLimit]_vars
----------------------------------------------------------------------------
(* Properties of the history.                                              *)

\* C5: from a state reached by N captured actions, N undos followed by N
\* redos leave a live layer collection and a group list identical to those
\* before the first undo.
C5_UndoRedoSymmetry ==
  (/\ hist.op = "redo"
   /\ hist.before.captured
   /\ hist.before.n >= 1
   /\ hist.before.n < HistoryLimit
   /\ hist.undos = hist.before.n
   /\ hist.redos = hist.before.n)
    => (/\ Contents(layers) = hist.before.layers
        /\ layerGroups = hist.before.groups)

\* C6: layerHistory and layerGroupHistory never hold more than 50 entries.
C6_HistoryBounded ==
  /\ Len(layerHistory) <= HistoryLimit
  /\ Len(layerGroupHistory) <= HistoryLimit

\* C7: a step that mutates a live layer in place or pushes onto the live
\* group list, after a capture or after an undo or redo, leaves every stored
\* layer-history and group-history entry unchanged.
C7_StoredEntriesIndependent ==
  [][hist'.op \in {"erase", "add", "group"}
       => (/\ layerHistory' = layerHistory
           /\ layerGroupHistory' = layerGroupHistory)]_vars

\* A cell was erased from a live layer whose captured copy, in the newest
\* entry, still holds it; and a group exists that no stored entry holds.
C7_Witness ==
  /\ hist.op = "erase"
  /\ \E k \in DOMAIN layerHistory[1] :
       /\ layerHistory[1][k].id = hist.layer
       /\ layerHistory[1][k].pixels # <<>>
       /\ LayerWithId(layers, hist.layer).pixels = <<>>
  /\ layerGroups # <<>>
  /\ \A e \in DOMAIN layerGroupHistory : layerGroupHistory[e].groups = <<>>

----------------------------------------------------------------------------
(* Joints: findJoints and probeJoint.                                      *)

\* Pixel.is and Pixel.isNear
is(p, q) == p = q

Abs(n) == IF n < 0 THEN -n ELSE n

isNear(p, otherPixel, distance) ==
  /\ otherPixel # NULL
  /\ Abs(otherPixel[1] - p[1]) <= distance
  /\ Abs(otherPixel[2] - p[2]) <= distance

hasPixel(l, p) == p # NULL /\ getPixelIndex(l, p) # 0

hasJointPixel(l, p) == p # NULL /\ p \in getJointPixels(l)

hasJoinerPixel(l, p) ==
  p # NULL /\ \E i \in DOMAIN getJoinerPixels(l) : getJoinerPixels(l)[i] = p

usesPixel(l, p) == hasPixel(l, p) \/ hasJointPixel(l, p)

\* LayerManager.getLayersOrderedByZindex, reversed: topmost first.
TopmostFirst(ls) == SortSeq(ls, LAMBDA a, b : a.zindex > b.zindex)

RECURSIVE VisibleIn(_, _, _)
\* The loop of layerPixelIsVisible over the layers, topmost first.
VisibleIn(ordered, targetLayer, targetPixel) ==
  IF ordered = <<>> THEN FALSE
  ELSE LET layer == Head(ordered)
           isUsingPixel == usesPixel(layer, targetPixel)
           isTargetLayer == layer.id = targetLayer.id
           isConnectedToTargetLayer ==
             hasJoinerPixel(layer, targetPixel) \/ hasJointPixel(layer, targetPixel)
       IN IF isTargetLayer /\ isUsingPixel THEN TRUE
          ELSE IF ~isTargetLayer /\ isUsingPixel /\ ~isConnectedToTargetLayer
          THEN FALSE
          ELSE VisibleIn(Tail(ordered), targetLayer, targetPixel)

layerPixelIsVisible(ls, targetLayer, targetPixel) ==
  /\ targetPixel # NULL
  /\ VisibleIn(TopmostFirst(ls), targetLayer, targetPixel)

\* Layer.join and Layer.unjoin: the bodies are empty.
join(l, otherLayerId, myAttachmentKey) == l

unjoin(l, otherLayerId, myAttachmentKey) == l

\* The first end of the probing layer that is near and on the joint pixel.
HitEnd(ends, isVisible, jointPixelOnParent) ==
  LET hits == {i \in DOMAIN ends :
                 /\ isVisible
                 /\ isNear(ends[i], jointPixelOnParent, 1)
                 /\ is(ends[i], jointPixelOnParent)}
  IN IF hits = {} THEN 0 ELSE Least(hits)

\* probingLayer.probeJoint(jointLayer, key, pixel), with ls the live layers
\* and the two layers given by position; the result is the layers after it.
probeJoint(ls, probing, owner, jointKeyOnParent, jointPixelOnParent) ==
  LET ends == SelectSeq(getJoinerPixels(ls[probing]), LAMBDA e : e # NULL)
      isVisible == layerPixelIsVisible(ls, ls[owner], jointPixelOnParent)
      hit == HitEnd(ends, isVisible, jointPixelOnParent)
      existing == \E i \in DOMAIN ls[owner].joints :
                    /\ ls[owner].joints[i].layerId = ls[probing].id
                    /\ ls[owner].joints[i].jointKey = jointKeyOnParent
  IN IF jointPixelOnParent = NULL \/ ends = <<>> THEN ls
     ELSE IF hit # 0
     THEN [ls EXCEPT
             ![owner] = join(@, ls[probing].id, jointKeyOnParent),
             ![probing] = join(@, ls[owner].id,
                               IF ends[hit] = ends[1] THEN "start" ELSE "end")]
     ELSE IF existing
     THEN [ls EXCEPT ![owner] = unjoin(@, ls[probing].id, jointKeyOnParent)]
     ELSE ls

\* The probes findJoints makes, in its order: for each layer that is neither
\* selected nor changed, for each of its keyed joint pixels, each changed
\* layer.
KeyOrder == <<"tl", "tr", "br", "bl", "t", "r", "b", "l">>

Probes(ls, changedLayers) ==
  LET owners == SelectSeq([k \in DOMAIN ls |-> k],
                          LAMBDA k : ~ls[k].isSelected /\ k \notin changedLayers)
      probers == SelectSeq([k \in DOMAIN ls |-> k],
                           LAMBDA k : k \in changedLayers)
      keysOf(k) == SelectSeq(KeyOrder,
                             LAMBDA key :
                               /\ key \in DOMAIN getKeyedJointPixels(ls[k])
                               /\ getKeyedJointPixels(ls[k])[key] # NULL)
      RECURSIVE Cat(_)
      Cat(ss) == IF ss = <<>> THEN <<>> ELSE Head(ss) \o Cat(Tail(ss))
      forKey(k, key) ==
        LET ps == SelectSeq(probers, LAMBDA q : ls[q].id # ls[k].id)
        IN [i \in DOMAIN ps |-> [owner |-> k, key |-> key, probing |-> ps[i]]]
      forOwner(k) == Cat([i \in DOMAIN keysOf(k) |-> forKey(k, keysOf(k)[i])])
  IN Cat([i \in DOMAIN owners |-> forOwner(owners[i])])

RECURSIVE Probed(_, _)
Probed(ls, probes) ==
  IF probes = <<>> THEN ls
  ELSE LET pr == Head(probes)
       IN Probed(probeJoint(ls, pr.probing, pr.owner, pr.key,
                            getKeyedJointPixels(ls[pr.owner])[pr.key]),
                 Tail(probes))

\* LayerManager.findJoints(changedLayers), changedLayers a set of positions.
findJoints(ls, changedLayers) ==
  IF changedLayers = {} THEN ls
  ELSE Probed(ls, Probes(ls, changedLayers))

\* The coincidences among the layers ls: <<owner id, key, mover id>> where the
\* layer owner, neither selected nor changed, has at key an attachment point
\* that is visible and is exactly an end of the changed layer mover.
Coincidences(ls, changedLayers) ==
  LET isEnd(m, jointPixel) ==
        \E i \in DOMAIN getJoinerPixels(ls[m]) :
          getJoinerPixels(ls[m])[i] = jointPixel
      hits(k, keyed) ==
        {<<ls[k].id, u[1], ls[u[2]].id>> :
           u \in {v \in (DOMAIN keyed) \X changedLayers :
                    /\ ls[k].id # ls[v[2]].id
                    /\ keyed[v[1]] # NULL
                    /\ isEnd(v[2], keyed[v[1]])
                    /\ layerPixelIsVisible(ls, ls[k], keyed[v[1]])}}
  IN UNION {hits(k, getKeyedJointPixels(ls[k])) :
              k \in {j \in DOMAIN ls :
                       ~ls[j].isSelected /\ j \notin changedLayers}}

RECURSIVE AtomicMoved(_, _, _, _)
\* atomicCommit over the jobs [layer, l => l.move(d)] of moveLayersAtomically,
\* for the layers at the positions todo: the layers after it and its result.
AtomicMoved(ls, todo, committed, d) ==
  IF todo = <<>> THEN [layers |-> ls, success |-> TRUE]
  ELSE LET k == Head(todo)
           r == commitFinish(move(commitEnter(ls[k]), d[1], d[2]))
           after == [ls EXCEPT ![k] = r.layer]
       IN IF ~r.value
          THEN [layers |-> RollbackAll(after, committed), success |-> FALSE]
          ELSE AtomicMoved(after, Tail(todo), Append(committed, k), d)

getSelectedLayers(ls) ==
  SelectSeq([k \in DOMAIN ls |-> k], LAMBDA k : ls[k].isSelected)

\* LayerManager.getLayerById: the position of the first layer with the id,
\* 0 when there is none.
getLayerById(ls, id) ==
  IF \E k \in DOMAIN ls : ls[k].id = id
  THEN CHOOSE k \in DOMAIN ls :
         ls[k].id = id /\ \A j \in 1 .. (k - 1) : ls[j].id # id
  ELSE 0

\* One turn of the loop of resizeJoinerLayers of the layer with id ownerId,
\* for its joint joint: the connected layer is redrawn from its fixed end to
\* the attachment point's current cell.
resizeJoiner(ls, ownerId, lastKeyedJointPixels, currentKeyedJoints, joint, resizeSelectedJoinerLayers) ==
  LET at(keyed) ==
        IF joint.jointKey \in DOMAIN keyed THEN keyed[joint.jointKey] ELSE NULL
      fixedEnd(joinerEnds, before) ==
        IF Len(joinerEnds) # 2 THEN NULL
        ELSE IF is(joinerEnds[1], before) THEN joinerEnds[2]
        ELSE IF is(joinerEnds[2], before) THEN joinerEnds[1]
        ELSE NULL
      redrawn(j, joinerFixedEnd, current) ==
        IF joinerFixedEnd # NULL
        THEN [ls EXCEPT ![j] = draw(setFromPixel(@, joinerFixedEnd), current)]
        ELSE ls
      follow(j, before, current) ==
        IF current = NULL
        THEN [ls EXCEPT ![j] = unjoin(@, ownerId, joint.jointKey)]
        ELSE redrawn(j,
                     fixedEnd(FilterNull(getJoinerPixels(ls[j])),
                              IF before = NULL THEN current ELSE before),
                     current)
      with(j) ==
        IF j = 0 THEN ls
        ELSE IF ~resizeSelectedJoinerLayers /\ ls[j].isSelected THEN ls
        ELSE follow(j, at(lastKeyedJointPixels), at(currentKeyedJoints))
  IN with(getLayerById(ls, joint.layerId))

RECURSIVE resizeJoiners(_, _, _, _, _, _)
\* The loop of resizeJoinerLayers over the joints of the layer.
resizeJoiners(ls, ownerId, lastKeyedJointPixels, currentKeyedJoints, joints, resizeSelectedJoinerLayers) ==
  IF joints = <<>> THEN ls
  ELSE resizeJoiners(resizeJoiner(ls, ownerId, lastKeyedJointPixels,
                                  currentKeyedJoints, Head(joints),
                                  resizeSelectedJoinerLayers),
                     ownerId, lastKeyedJointPixels, currentKeyedJoints,
                     Tail(joints), resizeSelectedJoinerLayers)

\* layer.resizeJoinerLayers(resizeSelectedJoinerLayers) for the layer at
\* position k, whose last commit began with the attachment points
\* lastKeyedJointPixels.
resizeJoinerLayers(ls, k, lastKeyedJointPixels, resizeSelectedJoinerLayers) ==
  resizeJoiners(ls, ls[k].id, lastKeyedJointPixels,
                getKeyedJointPixels(ls[k]), ls[k].joints,
                resizeSelectedJoinerLayers)

RECURSIVE ResizedAll(_, _, _)
\* layersToMove.forEach(layer => layer.resizeJoinerLayers(false)), where the
\* commit of each layer began in the layers origin.
ResizedAll(ls, origin, todo) ==
  IF todo = <<>> THEN ls
  ELSE ResizedAll(resizeJoinerLayers(ls, Head(todo),
                                     getKeyedJointPixels(origin[Head(todo)]),
                                     FALSE),
                  origin, Tail(todo))

\* LayerManager.moveLayersAtomically(layersToMove, d), layersToMove the
\* positions of the layers.
moveLayersAtomically(ls, layersToMove, d) ==
  LET resized(moved) ==
        IF moved.success
        THEN [layers |-> ResizedAll(moved.layers, ls, layersToMove),
              success |-> TRUE]
        ELSE moved
  IN IF layersToMove = <<>> THEN [layers |-> ls, success |-> TRUE]
     ELSE resized(AtomicMoved(ls, layersToMove, <<>>, d))

\* LayerManager.moveSelectedLayers(d): the selected layers are moved
\* atomically; on success joints are looked for and the canvas is refreshed.
MoveSelectedLayers(d) ==
  /\ Idle
  /\ getSelectedLayers(layers) # <<>>
  /\ LET found(moved, joined, changed) ==
           /\ layers' = refresh(refreshCleared(joined))
           /\ layerHistory' = Detached(layerHistory)
           /\ hist' = [NoHist EXCEPT
                         !.op = "findJoints",
                         !.coinciding = Coincidences(joined, changed),
                         !.diff = d,
                         !.origin = layers,
                         !.moved = moved.layers]
         after(moved, changed) ==
           IF moved.success
           THEN found(moved, findJoints(moved.layers, changed), changed)
           ELSE /\ layers' = moved.layers
                /\ layerHistory' = layerHistory
                /\ hist' = [NoHist EXCEPT !.op = "moveFailed"]
         with(selected) ==
           after(moveLayersAtomically(layers, selected, d),
                 {selected[i] : i \in DOMAIN selected})
     IN with(getSelectedLayers(layers))
  /\ UNCHANGED <<canvas, editingTextLayer, txVars, historyCursor, layerGroups, layerGroupHistory>>

\* layer.select() / layer.unselect() on the layer at position i.
Select(i) ==
  /\ Idle
  /\ i \in DOMAIN layers
  /\ ~layers[i].isSelected
  /\ layers' = [layers EXCEPT ![i].isSelected = TRUE]
  /\ hist' = [NoHist EXCEPT !.op = "select"]
  /\ UNCHANGED <<canvas, editingTextLayer, txVars, layerHistory, historyCursor, layerGroups,
                 layerGroupHistory>>

Unselect(i) ==
  /\ Idle
  /\ i \in DOMAIN layers
  /\ layers[i].isSelected
  /\ layers' = [layers EXCEPT ![i].isSelected = FALSE]
  /\ hist' = [NoHist EXCEPT !.op = "unselect"]
  /\ UNCHANGED <<canvas, editingTextLayer, txVars, layerHistory, historyCursor, layerGroups,
                 layerGroupHistory>>

\* A line drawn from p to p (FreeLineLayer.drawLayer, single point).
PointLine(id, p, z) ==
  [NewLayer(id, "line", p, z) EXCEPT !.toPixel = p, !.pixels = <<p>>,
                                     !.values = <<"lateral">>]

\* A square drawn from p to p (SquareLayer.drawLayer, single point).
PointSquare(id, p, z) ==
  [NewLayer(id, "square", p, z) EXCEPT !.toPixel = p, !.pixels = <<p>>,
                                       !.values = <<"top-left">>]

\* A square, a line above it and a free layer on top, each drawn at one cell.
InitJoint ==
  /\ canvas = Canvas(rowCount, colCount)
  /\ editingTextLayer = 0
  /\ \E p, q, c \in Pixels :
       layers = <<DrawnFreeLayer(3, c, 3), PointLine(2, q, 2),
                  PointSquare(1, p, 1)>>
  /\ stack = <<>>
  /\ ret = NoRet
  /\ batch = NoBatch
  /\ HistInit

NextJoint ==
  \/ \E d \in Diffs : MoveSelectedLayers(d)
  \/ \E i \in DOMAIN layers : Select(i)
  \/ \E i \in DOMAIN layers : Unselect(i)

SpecJoint == InitJoint /\ [][NextJoint]_vars

\* C10: after findJoints has run for the moved layers, a non-moving layer
\* whose visible attachment point coincides with an end of a moved layer has
\* in its joints an entry with the moved layer's id and the attachment key.
C10_CoincidenceRecordsJoint ==
  hist.op = "findJoints"
    => \A c \in hist.coinciding :
         \E i \in DOMAIN LayerWithId(layers, c[1]).joints :
           /\ LayerWithId(layers, c[1]).joints[i].layerId = c[3]
           /\ LayerWithId(layers, c[1]).joints[i].jointKey = c[2]

----------------------------------------------------------------------------
(* Moving a layer that owns recorded joints.  Joints are recorded only in  *)
(* decoded documents (join is empty), so the layers start as a decoded     *)
(* document leaves them after its joints were tidied.                      *)

\* A line drawn from p to q.
DrawnLine(id, p, q, z) ==
  [FreeLineLayer_drawLayer(NewLayer(id, "line", p, z), q) EXCEPT
     !.sharesPixels = FALSE, !.sharesValues = FALSE]

\* The joints an owner may record for the connecting layer c: one per key
\* whose attachment point is an end of c.
ValidJoints(owner, c) ==
  {[layerId |-> c.id, jointKey |-> key] :
     key \in {k \in DOMAIN getKeyedJointPixels(owner) :
                /\ getKeyedJointPixels(owner)[k] # NULL
                /\ \E i \in DOMAIN getJoinerPixels(c) :
                     getJoinerPixels(c)[i] = getKeyedJointPixels(owner)[k]}}

\* A one-cell square that records at most one joint to a line beside it.
InitResize ==
  /\ canvas = Canvas(rowCount, colCount)
  /\ editingTextLayer = 0
  /\ \E p, q, r \in Pixels :
       \E js \in {<<>>} \cup {<<j>> : j \in ValidJoints(PointSquare(1, p, 1),
                                                      DrawnLine(2, q, r, 2))} :
         layers = <<DrawnLine(2, q, r, 2),
                    [PointSquare(1, p, 1) EXCEPT !.joints = js]>>
  /\ stack = <<>>
  /\ ret = NoRet
  /\ batch = NoBatch
  /\ HistInit

SpecResize == InitResize /\ [][NextJoint]_vars

\* The layer l shifted by d, cell by cell.
Translated(l, d) ==
  LET shifted(p) == IF p = NULL THEN NULL
                    ELSE getPixelByRowCol(p[1] + d[1], p[2] + d[2])
  IN [fromPixel |-> shifted(l.fromPixel), toPixel |-> shifted(l.toPixel),
      pixels |-> [i \in DOMAIN l.pixels |-> shifted(l.pixels[i])]]

Geometry(l) ==
  [fromPixel |-> l.fromPixel, toPixel |-> l.toPixel, pixels |-> l.pixels]

\* The joints <<k, i>> (owner position, index) of the moved layers of origin
\* that name a live connecting layer.
MovedJoints(origin) ==
  {t \in (DOMAIN origin) \X (1 .. 8) :
     /\ origin[t[1]].isSelected
     /\ t[2] \in DOMAIN origin[t[1]].joints
     /\ getLayerById(origin, origin[t[1]].joints[t[2]].layerId) # 0}

\* The connecting layer c of origin, not in the move set, had an end at the
\* attachment point before; in moved, where the point is at current, it has
\* that end at current and its other end where it was.
Followed(c, m, before, current) ==
  \/ /\ c.fromPixel = before
     /\ {<<m.fromPixel, m.toPixel>>, <<m.toPixel, m.fromPixel>>}
          \cap {<<current, c.toPixel>>} # {}
  \/ /\ c.toPixel = before
     /\ {<<m.fromPixel, m.toPixel>>, <<m.toPixel, m.fromPixel>>}
          \cap {<<current, c.fromPixel>>} # {}

----------------------------------------------------------------------------
(* Moving a connecting layer away from the attachment point it is recorded *)
(* at.  A cell is near another when it is at most one step away in each    *)
(* direction, so the canvas is three cells wide.                           *)

\* A one-cell square at the left end of the canvas that records one joint to
\* a one-cell line on it or beside it.
InitUnjoin ==
  /\ canvas = Canvas(rowCount, WideCols)
  /\ editingTextLayer = 0
  /\ \E p \in {<<0, 0>>}, q \in Pixels :
       \E j \in ValidJoints(PointSquare(1, p, 1), DrawnLine(2, q, q, 2)) :
         layers = <<DrawnLine(2, q, q, 2),
                    [PointSquare(1, p, 1) EXCEPT !.joints = <<j>>]>>
  /\ stack = <<>>
  /\ ret = NoRet
  /\ batch = NoBatch
  /\ HistInit

SpecUnjoin == InitUnjoin /\ [][NextJoint]_vars

\* The joint joint of the owner at position k is one findJoints has probed
\* among the layers ls with the selected layers changed, and found unmet: its
\* attachment point is defined and no end of its connecting layer, a changed
\* one, is at or near it.
Unmet(ls, k, joint) ==
  LET away(j, at) ==
        /\ j # 0
        /\ ls[j].isSelected
        /\ at # NULL
        /\ getJoinerPixels(ls[j]) # <<>>
        /\ \A i \in DOMAIN getJoinerPixels(ls[j]) :
             ~isNear(getJoinerPixels(ls[j])[i], at, 1)
      of(keyed) ==
        /\ joint.jointKey \in DOMAIN keyed
        /\ away(getLayerById(ls, joint.layerId), keyed[joint.jointKey])
  IN ~ls[k].isSelected /\ of(getKeyedJointPixels(ls[k]))

----------------------------------------------------------------------------
(* GroupManager: groupLayers, ungroupLayers and tidy called on three       *)
(* layers.                                                                 *)

\* The layers a group operation may be given, and the longest group list
\* groupLayers is called on.
MaxMembers == 3
MaxGroups == 3

\* GroupManager.findGroupsFromLayers: the groups all of whose members are
\* among layerIds.
findGroupsFromLayers(groups, layerIds) ==
  LET covered(g) == \A i \in DOMAIN g : g[i] \in layerIds
  IN SelectSeq(groups, covered)

\* An ungroupLayers that removes every group with a member among layerIds.
ungroupLayers_AnyOverlap(groups, layerIds) ==
  LET apart(g) == \A i \in DOMAIN g : g[i] \notin layerIds
  IN SelectSeq([k \in DOMAIN groups |-> Signature(groups[k])], apart)

\* GroupManager.ungroupLayers: the groups whose signature is that of a group
\* found from the layers are filtered out; the filter sorts every group it
\* looks at in place.
ungroupLayers(groups, layerIds) ==
  LET found == findGroupsFromLayers(groups, layerIds)
      groupsToRemoveSignatures == {Signature(found[k]) : k \in DOMAIN found}
      sorted == [k \in DOMAIN groups |-> Signature(groups[k])]
      kept(g) == g \notin groupsToRemoveSignatures
  IN SelectSeq(sorted, kept)

\* groupManager.ungroupLayers(layers), with g the positions of the layers.
UngroupLayers(g) ==
  /\ Idle
  /\ layerGroups' = ungroupLayers(layerGroups,
                                  {layers[g[k]].id : k \in DOMAIN g})
  /\ layerGroupHistory' =
       [e \in DOMAIN layerGroupHistory |->
          IF layerGroupHistory[e].shared
          THEN GroupEntry([k \in DOMAIN layerGroupHistory[e].groups |->
                             Signature(layerGroupHistory[e].groups[k])],
                          FALSE)
          ELSE layerGroupHistory[e]]
  /\ hist' = [NoHist EXCEPT !.op = "ungroup",
                            !.ids = [k \in DOMAIN g |-> layers[g[k]].id]]
  /\ UNCHANGED <<canvas, editingTextLayer, txVars, layers, layerHistory, historyCursor>>

\* groupManager.tidy(deletedLayerIds)
GroupTidy(deletedLayerIds) ==
  /\ Idle
  /\ layerGroups' = tidy(layerGroups,
                         {deletedLayerIds[k] : k \in DOMAIN deletedLayerIds})
  /\ layerGroupHistory' = IF deletedLayerIds = <<>> THEN layerGroupHistory
                          ELSE GroupsDetached(layerGroupHistory)
  /\ hist' = [NoHist EXCEPT !.op = "tidy", !.ids = deletedLayerIds]
  /\ UNCHANGED <<canvas, editingTextLayer, txVars, layers, layerHistory, historyCursor>>

\* Three free layers, no group.
InitGroup ==
  /\ canvas = Canvas(rowCount, colCount)
  /\ editingTextLayer = 0
  /\ layers = [k \in 1 .. MaxMembers |-> DrawnFreeLayer(k, <<0, 0>>, k)]
  /\ stack = <<>>
  /\ ret = NoRet
  /\ batch = NoBatch
  /\ HistInit

\* The selections: one or more layers, each once, in any order.
Selections ==
  {g \in UNION {[1 .. n -> 1 .. MaxMembers] : n \in 1 .. MaxMembers} :
     \A i, j \in DOMAIN g : i # j => g[i] # g[j]}

\* The lists of ids or of positions in ascending order, the empty one
\* included.
AscendingLists ==
  {g \in UNION {[1 .. n -> 1 .. MaxMembers] : n \in 0 .. MaxMembers} :
     \A i, j \in DOMAIN g : i < j => g[i] < g[j]}

NextGroup ==
  \/ \E g \in Selections : Len(layerGroups) < MaxGroups /\ GroupLayers(g)
  \/ \E g \in AscendingLists : UngroupLayers(g)
  \/ \E d \in AscendingLists : GroupTidy(d)

SpecGroup == InitGroup /\ [][NextGroup]_vars

\* The member ids of the sequence g.
Members(g) == {g[i] : i \in DOMAIN g}

\* C14: after any sequence of group, ungroup and tidy operations every group
\* has at least 2 member ids, and after tidy(deletedIds) no group contains
\* one of the deleted ids.
C14_GroupsHaveTwoMembers ==
  /\ \A k \in DOMAIN layerGroups : Cardinality(Members(layerGroups[k])) >= 2
  /\ hist.op = "tidy"
       => \A k \in DOMAIN layerGroups :
            Members(layerGroups[k]) \cap Members(hist.ids) = {}

\* tidy has removed one id from a group of three, which stays as a group of
\* two beside no other group.
C14_Witness ==
  /\ hist.op = "tidy"
  /\ Len(hist.ids) = 1
  /\ Len(layerGroups) = 1
  /\ Len(layerGroups[1]) = 2

\* C15: ungroup(layers) removes exactly the groups whose every member id
\* belongs to the given layers; the groups with a member outside them remain,
\* in their order and with unchanged membership.
C15_UngroupRemovesCoveredGroups ==
  [][hist'.op = "ungroup"
       => LET outside(g) == ~(Members(g) \subseteq Members(hist'.ids))
              remaining == SelectSeq(layerGroups, outside)
          IN /\ Len(layerGroups') = Len(remaining)
             /\ \A k \in DOMAIN remaining :
                  Members(layerGroups'[k]) = Members(remaining[k])]_vars

\* ungroup was given two layers while three groups existed: it has removed
\* the group of those two and left the two groups that reach outside them.
C15_Witness ==
  /\ hist.op = "ungroup"
  /\ Len(hist.ids) = 2
  /\ Len(layerGroups) = 2
  /\ \A k \in DOMAIN layerGroups :
       /\ Members(layerGroups[k]) # Members(hist.ids)
       /\ Members(layerGroups[k]) \cap Members(hist.ids) # {}

\* C16: group(layers) adds no group when a group with the same member set
\* exists, whatever the order of the ids: the group list stays as it was.
C16_GroupIsIdempotent ==
  [][(/\ hist'.op = "group"
      /\ \E k \in DOMAIN layerGroups :
           Members(layerGroups[k]) = Members(hist'.ids))
       => layerGroups' = layerGroups]_vars

\* group was given the ids of an existing group in another order, and the
\* list holds that group only.
C16_Witness ==
  /\ hist.op = "group"
  /\ Len(layerGroups) = 1
  /\ Members(layerGroups[1]) = Members(hist.ids)
  /\ layerGroups[1] # hist.ids

----------------------------------------------------------------------------
(* Documents: decodeLayers and import.  An encoded layer is a record of    *)
(* its type tag ty ("" when the record has none), id, fp, tp, zi, jts and, *)
(* for a free layer, pxs and vls.                                          *)

\* The longest list of layer records in a document.
MaxRecords == 2

\* The type tags of the classes of LayerManager.LayerRegister, in its order.
LayerRegister ==
  <<"free-line", "free", "step-line", "circle", "switch-line", "square",
    "text", "table", "diamond">>

\* A lookup that finds a class for every tag.
getLayerClassByType_AnyTag(type) == type

\* LayerManager.getLayerClassByType: the class with the tag, "" for none.
getLayerClassByType(type) ==
  IF \E i \in DOMAIN LayerRegister : LayerRegister[i] = type THEN type ELSE ""

\* reportError(message): the diagnostic is recorded.
reportError(reported, message) == Append(reported, message)

\* The classes of LayerRegister that extend BaseLineLayer.
LineClasses == {"free-line", "step-line", "switch-line"}

\* new LayerClass(firstPixelId): the constructor of Layer followed by the
\* constructor of the class.  A line class adds its arrowhead flags, a text
\* layer its contents and cursor and an end anchor equal to its start
\* anchor, a table its counts and maps.  (A FreeLineLayer has type "line" in
\* this model.)
Construct(LayerClass, id, firstPixel, z) ==
  LET base == NewLayer(id, IF LayerClass = "free-line" THEN "line" ELSE LayerClass,
                       firstPixel, z)
  IN IF LayerClass \in LineClasses
     THEN base @@ [hasArrowLeft |-> FALSE, hasArrowRight |-> FALSE]
     ELSE IF LayerClass = "text"
     THEN [base EXCEPT !.toPixel = firstPixel]
            @@ [contents |-> <<>>, cursor |-> 0, noWrites |-> FALSE,
                lastCursorPixel |-> NULL]
     ELSE IF LayerClass = "table"
     THEN base @@ [tblRows |-> 0, tblCols |-> 0, tblColWidths |-> <<>>,
                   tblRowHeights |-> <<>>, textLayers |-> <<>>,
                   cellTextArchive |-> <<>>]
     ELSE base

\* A decoder that leaves the line form of the constructor in place.
Layer_decode_DefaultLineForm(encodedLayer) ==
  LET made(layer) ==
        [layer EXCEPT !.toPixel = IF encodedLayer.tp \in Pixels
                                  THEN encodedLayer.tp ELSE @,
                      !.joints = encodedLayer.jts,
                      !.tableId = encodedLayer.tbl]
  IN made(Construct(getLayerClassByType(encodedLayer.ty), encodedLayer.id,
                    IF encodedLayer.fp \in Pixels THEN encodedLayer.fp
                    ELSE <<0, 0>>,
                    encodedLayer.zi))

\* Layer.decode: a new layer of the class, with the encoded id, anchors,
\* z-order, line form, joints and table id; its cell lists are empty.  A
\* record without a line form has lf = "", one without a table id tbl = 0.
Layer_decode(encodedLayer) ==
  LET made(layer) ==
        [layer EXCEPT !.toPixel = IF encodedLayer.tp \in Pixels
                                  THEN encodedLayer.tp ELSE @,
                      !.lineForm = IF encodedLayer.lf # ""
                                   THEN encodedLayer.lf ELSE @,
                      !.joints = encodedLayer.jts,
                      !.tableId = encodedLayer.tbl]
  IN made(Construct(getLayerClassByType(encodedLayer.ty), encodedLayer.id,
                    IF encodedLayer.fp \in Pixels THEN encodedLayer.fp
                    ELSE <<0, 0>>,
                    encodedLayer.zi))

\* FreeLayer.decode: the cells and values are read, cut to the same length.
FreeLayer_decode(encodedLayer) ==
  LET cut(layer, pixels, values, minLen) ==
        [layer EXCEPT !.pixels = SubSeq(pixels, 1, minLen),
                      !.values = SubSeq(values, 1, minLen)]
      read(pixels, values) ==
        cut(Layer_decode(encodedLayer), pixels, values,
            IF Len(pixels) < Len(values) THEN Len(pixels) ELSE Len(values))
  IN read(SelectSeq(encodedLayer.pxs, LAMBDA p : p \in Pixels),
          encodedLayer.vls)

\* BaseLineLayer.decode: the arrowhead flags are read as booleans.
BaseLineLayer_decode(encodedLayer) ==
  [Layer_decode(encodedLayer) EXCEPT !.hasArrowLeft = (encodedLayer.al = TRUE),
                                     !.hasArrowRight = (encodedLayer.ar = TRUE)]

\* TextLayer.decode: the contents are the characters of cts, the cursor 0.
TextLayer_decode(encodedLayer) ==
  [Layer_decode(encodedLayer) EXCEPT !.contents = encodedLayer.cts,
                                     !.cursor = 0]

\* TableLayer.decode: the counts and maps are read; the archive is not stored.
TableLayer_decode(encodedLayer) ==
  [Layer_decode(encodedLayer) EXCEPT !.tblCols = encodedLayer.tblc,
                                     !.tblRows = encodedLayer.tblr,
                                     !.tblColWidths = encodedLayer.tblws,
                                     !.tblRowHeights = encodedLayer.tblhs,
                                     !.textLayers = encodedLayer.tbltx]

\* LayerClass.decode of the record's class.
decode(encodedLayer) ==
  IF encodedLayer.ty = "free" THEN FreeLayer_decode(encodedLayer)
  ELSE IF encodedLayer.ty \in LineClasses THEN BaseLineLayer_decode(encodedLayer)
  ELSE IF encodedLayer.ty = "text" THEN TextLayer_decode(encodedLayer)
  ELSE IF encodedLayer.ty = "table" THEN TableLayer_decode(encodedLayer)
  ELSE Layer_decode(encodedLayer)

RECURSIVE decodeLayers(_)
\* LayerManager.decodeLayers: the layers decoded from the records, and what
\* was reported on the way.
decodeLayers(encodedLayerDataArray) ==
  LET with(encodedLayer, rest) ==
        IF encodedLayer.ty = "" THEN rest
        ELSE IF getLayerClassByType(encodedLayer.ty) = ""
        THEN [layers |-> rest.layers,
              reported |->
                reportError(<<>>, [error |-> "Unknown layer type during decode",
                                   ty |-> encodedLayer.ty]) \o rest.reported]
        ELSE [layers |-> <<decode(encodedLayer)>> \o rest.layers,
              reported |-> rest.reported]
  IN IF encodedLayerDataArray = <<>>
     THEN [layers |-> <<>>, reported |-> <<>>]
     ELSE with(Head(encodedLayerDataArray),
               decodeLayers(Tail(encodedLayerDataArray)))

\* The record at position k of a document: a free layer with or without a
\* cell, a square, or a record of an unregistered type, with no joint or a
\* joint to the layer of id j.
Records(k) ==
  {[ty |-> ty, id |-> k, fp |-> <<0, 0>>, tp |-> NULL, zi |-> k,
    lf |-> "solid-thin", jts |-> jts, tbl |-> 0,
    pxs |-> pxs, vls |-> [i \in DOMAIN pxs |-> freeChar]] :
     ty \in {"free", "square", "polygon"},
     pxs \in {<<>>, <<<<0, 0>>>>},
     jts \in {<<>>} \cup {<<[layerId |-> j, jointKey |-> "tl"]>> : j \in {2, 9}}}

Documents ==
  UNION {{d \in [1 .. n -> UNION {Records(k) : k \in 1 .. MaxRecords}] :
            \A k \in 1 .. n : d[k] \in Records(k)} : n \in 0 .. MaxRecords}

\* layerManager.decodeLayers(records) is called.
DecodeLayers(records) ==
  /\ Idle
  /\ hist' = [NoHist EXCEPT !.op = "decode",
                            !.records = records,
                            !.decoded = decodeLayers(records).layers,
                            !.reported = decodeLayers(records).reported]
  /\ UNCHANGED <<canvas, editingTextLayer, txVars, layers, layerHistory, historyCursor,
                 layerGroups, layerGroupHistory>>

SpecDecode == InitHist /\ [][\E records \in Documents : DecodeLayers(records)]_vars

\* The tags of the records of a document that name a registered class.
IsRegistered(encodedLayer) ==
  \E i \in DOMAIN LayerRegister : LayerRegister[i] = encodedLayer.ty

\* C19: decoding a document in which some records carry an unknown type tag
\* yields exactly the layers of the other records, in order; each record of
\* unknown type is skipped and reported, and no other record is lost.
C19_UnknownTypesSkipped ==
  hist.op = "decode"
    => LET others == SelectSeq(hist.records, IsRegistered)
           unknown == SelectSeq(hist.records, LAMBDA e : ~IsRegistered(e))
       IN /\ Len(hist.decoded) = Len(others)
          /\ \A k \in DOMAIN others :
               /\ hist.decoded[k].id = others[k].id
               /\ hist.decoded[k].fromPixel = others[k].fp
               /\ hist.decoded[k].zindex = others[k].zi
               /\ hist.decoded[k].joints = others[k].jts
               /\ others[k].ty = "free" => hist.decoded[k].pixels = others[k].pxs
          /\ Len(hist.reported) = Len(unknown)
          /\ \A k \in DOMAIN unknown : hist.reported[k].ty = unknown[k].ty

\* A document whose first record is of unknown type and whose second is a
\* free layer with a cell has been decoded into that one layer.
C19_Witness ==
  /\ hist.op = "decode"
  /\ Len(hist.records) = 2
  /\ ~IsRegistered(hist.records[1])
  /\ hist.records[2].ty = "free"
  /\ Len(hist.decoded) = 1
  /\ hist.decoded[1].pixels # <<>>
  /\ Len(hist.reported) = 1

----------------------------------------------------------------------------
(* import, and triggerChanged on layers that came out of decodeLayers.     *)

\* The documents import is given: text that JSON.parse rejects, a parsed
\* value without a layers array, and a parsed value with one.
DocumentKinds == {"unparsable", "no layers", "usable"}

\* LayerManager.import(encodedData).  LayerManager has no method empty, so
\* the update function of refresh(() => this.empty()) throws a TypeError once
\* refresh has cleared the cell lists: for a usable document inside the try
\* block, whose catch block then calls it again, and for unparsable text in
\* the catch block.  The error of the catch block leaves import.
Import(doc) ==
  /\ Idle
  /\ IF doc = "no layers"
     THEN /\ layers' = layers
          /\ layerHistory' = layerHistory
          /\ ret' = [NoRet EXCEPT !.kind = "import", !.value = FALSE,
                                  !.why = "returned"]
          /\ hist' = [NoHist EXCEPT
                        !.op = "import", !.doc = doc, !.origin = layers,
                        !.reported =
                           reportError(<<>>, "Import failed: Invalid data structure")]
     ELSE /\ layers' = IF doc = "usable"
                       THEN refreshCleared(refreshCleared(layers))
                       ELSE refreshCleared(layers)
          /\ layerHistory' = Detached(layerHistory)
          /\ ret' = [NoRet EXCEPT !.kind = "import", !.why = "threw"]
          /\ hist' = [NoHist EXCEPT
                        !.op = "import", !.doc = doc, !.origin = layers,
                        !.reported = reportError(<<>>, "Import failed")]
  /\ UNCHANGED <<canvas, editingTextLayer, stack, batch, historyCursor, layerGroups,
                 layerGroupHistory>>

\* The live layers are those decodeLayers returns for a document.
InitDoc ==
  /\ canvas = Canvas(rowCount, colCount)
  /\ editingTextLayer = 0
  /\ \E records \in Documents : layers = decodeLayers(records).layers
  /\ stack = <<>>
  /\ ret = NoRet
  /\ batch = NoBatch
  /\ HistInit

NextDoc ==
  \/ \E doc \in DocumentKinds : Import(doc)
  \/ Len(layerHistory) < MaxHistory /\ ChangeEvent
  \/ \E i \in DOMAIN layers, p \in Pixels : LayerErasePixel(i, p)

SpecDoc == InitDoc /\ [][NextDoc]_vars

C20_UnusableImportResets ==
  (hist.op = "import" /\ hist.doc \in {"unparsable", "no layers"})
    => /\ ret.kind = "import"
       /\ ret.why = "returned"
       /\ ret.value = FALSE
       /\ layers = <<>>
       /\ hist.reported # <<>>

----------------------------------------------------------------------------
(* Moving one of two grouped layers.  The move by (1, 1) needs a second    *)
(* row.                                                                    *)

TallRows == 2

\* Two one-cell squares.
InitSibling ==
  /\ canvas = Canvas(TallRows, colCount)
  /\ editingTextLayer = 0
  /\ \E p, q \in Pixels :
       layers = <<PointSquare(2, q, 2), PointSquare(1, p, 1)>>
  /\ stack = <<>>
  /\ ret = NoRet
  /\ batch = NoBatch
  /\ HistInit

NextSibling ==
  \/ \E d \in {<<1, 1>>, <<-1, -1>>} : MoveSelectedLayers(d)
  \/ \E i \in DOMAIN layers : Select(i)
  \/ \E i \in DOMAIN layers : Unselect(i)
  \/ \E g \in LayerOrders : GroupLayers(g)

SpecSibling == InitSibling /\ [][NextSibling]_vars

\* GroupManager.getSiblingLayerIds: the ids of the groups the layer is in.
getSiblingLayerIds(groups, id) ==
  UNION {{groups[k][i] : i \in DOMAIN groups[k]} :
           k \in {j \in DOMAIN groups :
                    \E i \in DOMAIN groups[j] : groups[j][i] = id}}

\* C17: moving the selection changes only selected layers: when two layers
\* are grouped and one of them is selected, a move of the selection by (1, 1)
\* leaves the unselected sibling's anchors and occupied cells unchanged.
C17_MoveLeavesUnselectedSibling ==
  (hist.op = "findJoints" /\ hist.diff = <<1, 1>>)
    => \A k \in DOMAIN layers :
         (/\ ~hist.origin[k].isSelected
          /\ \E j \in DOMAIN layers :
               /\ hist.origin[j].isSelected
               /\ layers[k].id
                    \in getSiblingLayerIds(layerGroups, layers[j].id))
           => Geometry(layers[k]) = Geometry(hist.origin[k])

----------------------------------------------------------------------------
(* Layer ids.  makeId draws a random number and compares it with nothing,  *)
(* so a new layer may be given any id of the range.                        *)

NextIds ==
  \/ \E p \in Pixels, id \in LayerIds : DrawMouseDownEvent(p, id)
  \/ Len(layerHistory) < MaxHistory /\ ChangeEvent
  \/ UndoEvent
  \/ RedoEvent
  \/ \E i \in DOMAIN layers, p \in Pixels : LayerAdd(i, p)

SpecIds == InitHist /\ [][NextIds]_vars

\* C18: no two layers in the live collection ever share an id.
C18_LiveIdsDistinct ==
  \A i, j \in DOMAIN layers : i # j => layers[i].id # layers[j].id

----------------------------------------------------------------------------
(* encode, and decode of what encode returned.                             *)

\* Layer.getType: the type tag of the layer's class.
getType(l) == IF l.type = "line" THEN "free-line" ELSE l.type

\* Layer.encode: the record of the common fields (tbl = 0 when there is no
\* table id).
Layer_encode(l) ==
  [ty |-> getType(l), id |-> l.id, fp |-> l.fromPixel, tp |-> l.toPixel,
   zi |-> l.zindex, lf |-> l.lineForm, jts |-> l.joints, tbl |-> l.tableId]

\* BaseLineLayer.encode adds the arrowhead flags.
BaseLineLayer_encode(l) ==
  Layer_encode(l) @@ [al |-> l.hasArrowLeft, ar |-> l.hasArrowRight]

\* TextLayer.encode adds the contents joined into one string (the string is
\* the sequence of its characters).
TextLayer_encode(l) == Layer_encode(l) @@ [cts |-> l.contents]

\* FreeLayer.encode adds the ids of the cells and the values.
FreeLayer_encode(l) == Layer_encode(l) @@ [pxs |-> l.pixels, vls |-> l.values]

\* TableLayer.encode adds the counts, the size maps and the cell-to-text map.
TableLayer_encode(l) ==
  Layer_encode(l) @@ [tblc |-> l.tblCols, tblr |-> l.tblRows,
                      tblws |-> l.tblColWidths, tblhs |-> l.tblRowHeights,
                      tbltx |-> l.textLayers]

\* layer.encode() of the layer's class.
encode(l) ==
  IF getType(l) = "free" THEN FreeLayer_encode(l)
  ELSE IF getType(l) \in LineClasses THEN BaseLineLayer_encode(l)
  ELSE IF getType(l) = "text" THEN TextLayer_encode(l)
  ELSE IF getType(l) = "table" THEN TableLayer_encode(l)
  ELSE Layer_encode(l)

\* The classes with static lineBased = true: their line form can be changed.
LineBasedClasses == LineClasses \cup {"square", "table", "circle", "diamond"}

\* The layers of id 1 a drawing can hold: of every class of LayerRegister,
\* with anchors on the grid (the end anchor of a text layer is never null),
\* a line form, arrowheads on a line, and no joint or a joint to layer 2.
EncodableLayers ==
  LET arrows(l, al, ar) ==
        IF getType(l) \in LineClasses
        THEN [l EXCEPT !.hasArrowLeft = al, !.hasArrowRight = ar] ELSE l
      cells(l) ==
        IF getType(l) = "free"
        THEN [l EXCEPT !.pixels = <<l.fromPixel>>, !.values = <<freeChar>>]
        ELSE IF getType(l) = "text"
        THEN [l EXCEPT !.contents = <<"a">>, !.cursor = 1] ELSE l
  IN {cells(arrows([Construct(LayerRegister[c], 1, p, z)
                      EXCEPT !.toPixel = q, !.lineForm = lf, !.joints = jts],
                   al, ar)) :
        c \in DOMAIN LayerRegister, p \in Pixels, q \in Pixels \cup {NULL},
        z \in 1 .. 2, lf \in LineForms, al \in BOOLEAN, ar \in BOOLEAN,
        jts \in {<<>>, <<[layerId |-> 2, jointKey |-> "tl"]>>}}

InitCodec ==
  /\ canvas = Canvas(rowCount, colCount)
  /\ editingTextLayer = 0
  /\ layers \in {<<l>> : l \in {e \in EncodableLayers :
                                  /\ getType(e) = "text" => e.toPixel # NULL
                                  /\ getType(e) \notin LineBasedClasses
                                       => e.lineForm = "solid-thin"}}
  /\ stack = <<>>
  /\ ret = NoRet
  /\ batch = NoBatch
  /\ HistInit

\* LayerClass.decode(layer.encode()) is called for the layer at position i.
RoundTrip(i) ==
  /\ Idle
  /\ hist' = [NoHist EXCEPT !.op = "roundtrip",
                            !.layer = layers[i].id,
                            !.records = <<encode(layers[i])>>,
                            !.decoded = <<decode(encode(layers[i]))>>]
  /\ UNCHANGED <<canvas, editingTextLayer, txVars, layers, layerHistory, historyCursor,
                 layerGroups, layerGroupHistory>>

SpecCodec == InitCodec /\ [][\E i \in DOMAIN layers : RoundTrip(i)]_vars

\* C21: for every layer kind, decode(encode(layer)) has the same type, the
\* same from and to anchors, the same line form (and, for a line, the same
\* arrowhead flags), the same z-order and the same joints as the layer.
C21_RoundTripKeepsLayer ==
  hist.op = "roundtrip"
    => LET same(l, d) ==
             /\ getType(d) = getType(l)
             /\ d.fromPixel = l.fromPixel
             /\ d.toPixel = l.toPixel
             /\ d.lineForm = l.lineForm
             /\ getType(l) \in LineClasses
                  => /\ d.hasArrowLeft = l.hasArrowLeft
                     /\ d.hasArrowRight = l.hasArrowRight
             /\ d.zindex = l.zindex
             /\ d.joints = l.joints
       IN /\ Len(hist.decoded) = 1
          /\ same(layers[1], hist.decoded[1])

\* A bold step line with an end anchor, a right arrowhead and a joint has
\* been encoded and decoded.
C21_Witness ==
  /\ hist.op = "roundtrip"
  /\ getType(layers[1]) = "step-line"
  /\ layers[1].lineForm = "solid-bold"
  /\ layers[1].toPixel # NULL
  /\ layers[1].hasArrowRight
  /\ ~layers[1].hasArrowLeft
  /\ layers[1].joints # <<>>
  /\ layers[1].zindex = 2
  /\ Len(hist.decoded) = 1

----------------------------------------------------------------------------
(* TextLayer.  A key or a pasted text is the sequence of its characters;   *)
(* the contents of a text layer are a sequence of characters.              *)

\* Most keys typed into the text layers of a drawing.
MaxKeys == 3

\* TextLayer.starterChar
starterChar == ">"

\* event.key of the Enter, Backspace and Delete keys.
KeyEnter == <<"E", "n", "t", "e", "r">>
KeyBackspace == <<"B", "a", "c", "k", "s", "p", "a", "c", "e">>
KeyDelete == <<"D", "e", "l", "e", "t", "e">>

\* array.splice(start, deleteCount, ...items), start counted from 0 and
\* taken as the length of the array when it lies past its end.
splice(array, start, deleteCount, items) ==
  LET actualStart == IF start > Len(array) THEN Len(array) ELSE start
  IN SubSeq(array, 1, actualStart) \o items
       \o SubSeq(array, actualStart + deleteCount + 1, Len(array))

\* TextLayer.setStarterChar
setStarterChar(l) ==
  IF l.contents = <<>> /\ l.tableId = 0
  THEN [l EXCEPT !.contents = <<starterChar>>, !.cursor = 1, !.noWrites = TRUE]
  ELSE l

\* TextLayer.checkNoWrites
checkNoWrites(l) ==
  LET refilled(x) ==
        IF x.contents = <<>> /\ x.tableId = 0
        THEN [setStarterChar(x) EXCEPT !.noWrites = TRUE] ELSE x
  IN refilled(IF l.noWrites /\ l.contents # <<starterChar>>
              THEN [l EXCEPT !.noWrites = FALSE] ELSE l)

\* TextLayer.writeChar for Enter, Backspace, Delete and a one-character key
\* (the arrow keys are not among the keys of this model).
writeChar(l, key) ==
  LET len == Len(l.contents)
      clamped(cursor) ==
        IF cursor < 0 THEN 0 ELSE IF cursor > len THEN len ELSE cursor
      typed(x) ==
        IF key = KeyEnter
        THEN [x EXCEPT !.contents = splice(@, x.cursor, 0, <<"\n">>),
                       !.cursor = @ + 1]
        ELSE IF key = KeyBackspace
        THEN IF x.cursor > 0
             THEN [x EXCEPT !.contents = splice(@, x.cursor - 1, 1, <<>>),
                            !.cursor = @ - 1]
             ELSE x
        ELSE IF key = KeyDelete
        THEN IF x.cursor < len
             THEN [x EXCEPT !.contents = splice(@, x.cursor, 1, <<>>)]
             ELSE x
        ELSE IF Len(key) = 1
        THEN [x EXCEPT !.contents = splice(@, x.cursor, 0, key),
                       !.cursor = @ + 1]
        ELSE x
  IN checkNoWrites(typed([l EXCEPT !.cursor = clamped(l.cursor)]))

\* TextLayer.paste: the characters other than "\r" are inserted at the cursor.
paste(l, textToPaste) ==
  LET chars == SelectSeq(textToPaste, LAMBDA char : char # "\r")
  IN IF textToPaste = <<>> THEN l
     ELSE checkNoWrites([l EXCEPT !.contents = splice(@, l.cursor, 0, chars),
                                  !.cursor = @ + Len(chars)])

\* TextLayer.clearLastCursor
clearLastCursor(l) == [l EXCEPT !.lastCursorPixel = NULL]

RECURSIVE rasterText(_, _, _, _)
\* The loop of TextLayer.drawLayer from character i on, the next cell being
\* at row currentR and column currentC: a line break moves to the next row,
\* a character off the grid cuts the contents, any other is added.
rasterText(l, i, currentR, currentC) ==
  IF i > Len(l.contents) THEN l
  ELSE IF l.contents[i] = "\n"
  THEN rasterText(l, i + 1, currentR + 1, l.fromPixel[2])
  ELSE IF getPixelByRowCol(currentR, currentC) = NULL
  THEN [l EXCEPT !.contents = SubSeq(@, 1, i - 1)]
  ELSE rasterText(add(l, getPixelByRowCol(currentR, currentC), l.contents[i]),
                  i + 1, currentR, currentC + 1)

\* A drawLayer that draws the characters on the grid and keeps the rest.
TextLayer_drawLayer_KeepsContents(l) ==
  IF l.fromPixel = NULL THEN clearLastCursor(l)
  ELSE [rasterText(clearLastCursor(l), 1, l.fromPixel[1], l.fromPixel[2])
          EXCEPT !.contents = l.contents]

\* TextLayer.drawLayer(null, true).  Layer.clear blanks the cells on the
\* display and leaves the cell lists as they are, so the cells are added
\* after the ones the layer holds.
TextLayer_drawLayer(l) ==
  IF l.fromPixel = NULL THEN clearLastCursor(l)
  ELSE rasterText(clearLastCursor(l), 1, l.fromPixel[1], l.fromPixel[2])

RECURSIVE cursorScan(_, _, _, _, _, _, _)
\* The loop of TextLayer.moveCursorToPixel from character i (counted from
\* 0) on: where it leaves newCursorPos, currentLine and currentCol, and
\* whether it met the cell exactly.
cursorScan(l, i, currentLine, currentCol, newCursorPos, relativeRow, relativeCol) ==
  IF i >= Len(l.contents)
  THEN [newCursorPos |-> newCursorPos, foundExact |-> FALSE,
        currentLine |-> currentLine, currentCol |-> currentCol]
  ELSE IF currentLine = relativeRow /\ currentCol = relativeCol
  THEN [newCursorPos |-> i, foundExact |-> TRUE,
        currentLine |-> currentLine, currentCol |-> currentCol]
  ELSE IF l.contents[i + 1] = "\n"
  THEN IF currentLine + 1 > relativeRow
       THEN [newCursorPos |-> i, foundExact |-> FALSE,
             currentLine |-> currentLine + 1, currentCol |-> 0]
       ELSE cursorScan(l, i + 1, currentLine + 1, 0, i + 1,
                       relativeRow, relativeCol)
  ELSE cursorScan(l, i + 1, currentLine, currentCol + 1, i + 1,
                  relativeRow, relativeCol)

\* TextLayer.moveCursorToPixel: the layer it leaves, and whether it threw.
\* A click past the content of its line reaches this.getLineForCharIndex,
\* which no class defines, so the call throws before the cursor is set.
moveCursorToPixel(l, pixelToMoveTo) ==
  LET placed(x, scan) ==
        IF ~scan.foundExact /\ scan.currentLine = pixelToMoveTo[1] - l.fromPixel[1]
             /\ pixelToMoveTo[2] - l.fromPixel[2] >= scan.currentCol
        THEN [layer |-> x, threw |-> TRUE]
        ELSE [layer |-> [x EXCEPT !.cursor = IF scan.newCursorPos < Len(x.contents)
                                             THEN scan.newCursorPos
                                             ELSE Len(x.contents),
                                  !.lastCursorPixel = pixelToMoveTo],
              threw |-> FALSE]
  IN IF pixelToMoveTo = NULL \/ l.fromPixel = NULL
     THEN [layer |-> l, threw |-> FALSE]
     ELSE placed(clearLastCursor(l),
                 cursorScan(l, 0, 0, 0, 0,
                            pixelToMoveTo[1] - l.fromPixel[1],
                            pixelToMoveTo[2] - l.fromPixel[2]))

\* TextLayer.placeCursorAtLogicalPosition: the cursor cell is the cell after
\* the characters before the cursor, or a cell of the layer when that one
\* is off the grid.
placeCursorAtLogicalPosition(l) ==
  LET before == SubSeq(l.contents, 1,
                       IF l.cursor < Len(l.contents) THEN l.cursor
                       ELSE Len(l.contents))
      breaks == {j \in DOMAIN before : before[j] = "\n"}
      r == l.fromPixel[1] + Cardinality(breaks)
      c == l.fromPixel[2] + Len(before)
             - (IF breaks = {} THEN 0 ELSE Greatest(breaks))
      fallback(targetPixel) ==
        IF targetPixel # NULL THEN targetPixel
        ELSE IF l.pixels # <<>>
        THEN l.pixels[IF l.cursor < Len(l.pixels) - 1 THEN l.cursor + 1
                      ELSE Len(l.pixels)]
        ELSE l.fromPixel
  IN IF l.contents = <<>> /\ l.cursor = 0
     THEN [l EXCEPT !.lastCursorPixel = l.fromPixel]
     ELSE [l EXCEPT !.lastCursorPixel =
                       fallback(IF l.cursor = 0 THEN l.fromPixel
                                ELSE getPixelByRowCol(r, c))]

\* TextLayer.stash: Layer.stash, and a copy of the contents, the cursor and
\* the placeholder flag.
TextLayer_stash(l) ==
  [stash(l) EXCEPT !.stashed = @ @@ [contents |-> l.contents,
                                     cursor |-> l.cursor,
                                     noWrites |-> l.noWrites]]

\* TextLayer.rollback: Layer.rollback, the stashed contents, cursor and flag
\* (the defaults when nothing was stashed), a redraw, and the cursor put
\* back on a cell.
TextLayer_rollback(l) ==
  LET has == "contents" \in DOMAIN l.stashed
      restored(x) ==
        [x EXCEPT !.contents = IF has THEN l.stashed.contents ELSE <<>>,
                  !.cursor = IF has THEN l.stashed.cursor ELSE 0,
                  !.noWrites = IF has THEN l.stashed.noWrites ELSE FALSE]
      recursored(x, oldLastCursorPixel) ==
        IF oldLastCursorPixel # NULL
             /\ \E i \in DOMAIN x.pixels : x.pixels[i] = oldLastCursorPixel
        THEN moveCursorToPixel(x, oldLastCursorPixel).layer
        ELSE IF x.pixels # <<>> THEN placeCursorAtLogicalPosition(x)
        ELSE IF x.fromPixel # NULL THEN moveCursorToPixel(x, x.fromPixel).layer
        ELSE x
  IN recursored(TextLayer_drawLayer(clearLastCursor(restored(rollback(l)))),
                l.lastCursorPixel)

\* TableLayer.tblSizeLimit, tblColDefaultWidth and tblRowDefaultHeight
tblSizeLimit == 20
tblColDefaultWidth == 5
tblRowDefaultHeight == 1

\* Layer.hasTable and Layer.getTable, among the live layers ls.
hasTable(ls, l) == l.tableId # 0 /\ \E k \in DOMAIN ls : ls[k].id = l.tableId

getTable(ls, l) == ls[CHOOSE k \in DOMAIN ls : ls[k].id = l.tableId]

\* TableLayer.getRowHeight, getColWidth: the stored size, or the default.
getRowHeight(t, rowIndex) ==
  IF rowIndex \in DOMAIN t.tblRowHeights /\ t.tblRowHeights[rowIndex] # 0
  THEN t.tblRowHeights[rowIndex] ELSE tblRowDefaultHeight

getColWidth(t, colIndex) ==
  IF colIndex \in DOMAIN t.tblColWidths /\ t.tblColWidths[colIndex] # 0
  THEN t.tblColWidths[colIndex] ELSE tblColDefaultWidth

\* TableLayer.isHappy
TableLayer_isHappy(t) ==
  /\ ~(t.tblRows = 0 \/ t.tblCols = 0)
  /\ ~(t.tblRows > tblSizeLimit \/ t.tblCols > tblSizeLimit)
  /\ isHappy(t)

\* TextLayer.isHappy, among the live layers ls.
TextLayer_isHappy(ls, l) ==
  IF hasTable(ls, l) THEN TableLayer_isHappy(getTable(ls, l)) /\ isHappy(l)
  ELSE isHappy(l)

\* TableLayer.stash and TableLayer.rollback: the counts and clones of the maps.
TableLayer_stash(t) ==
  [stash(t) EXCEPT !.stashed = @ @@ [tblCols |-> t.tblCols,
                                     tblRows |-> t.tblRows,
                                     tblColWidths |-> t.tblColWidths,
                                     tblRowHeights |-> t.tblRowHeights,
                                     textLayers |-> t.textLayers,
                                     cellTextArchive |-> t.cellTextArchive]]

TableLayer_rollback(t) ==
  LET has == "tblCols" \in DOMAIN t.stashed
  IN [rollback(t) EXCEPT
        !.tblCols = IF has THEN t.stashed.tblCols ELSE 0,
        !.tblRows = IF has THEN t.stashed.tblRows ELSE 0,
        !.tblColWidths = IF has THEN t.stashed.tblColWidths ELSE <<>>,
        !.tblRowHeights = IF has THEN t.stashed.tblRowHeights ELSE <<>>,
        !.textLayers = IF has THEN t.stashed.textLayers ELSE <<>>,
        !.cellTextArchive = IF has THEN t.stashed.cellTextArchive ELSE <<>>]

\* TableLayer.getTopLeftPixel
getTopLeftPixel(t) ==
  IF t.fromPixel = NULL \/ t.toPixel = NULL THEN NULL
  ELSE getPixelByRowCol(Least({t.fromPixel[1], t.toPixel[1]}),
                        Least({t.fromPixel[2], t.toPixel[2]}))

RECURSIVE lineLengths(_, _)
\* The loop of TextLayer.getLineLengths over the characters left.
lineLengths(chars, lengths) ==
  IF chars = <<>> THEN lengths
  ELSE IF Head(chars) = "\n" THEN lineLengths(Tail(chars), Append(lengths, 0))
  ELSE lineLengths(Tail(chars),
                   [lengths EXCEPT ![Len(lengths)] = @ + 1])

\* TextLayer.getLineLengths
getLineLengths(l) == lineLengths(l.contents, <<0>>)

\* TableLayer.updateCellDimensionsFromTextLayer: the row and the column of
\* the text layer's cell grow to its lines; they never shrink.
updateCellDimensionsFromTextLayer(ls, t, textLayerId) ==
  LET cells == {cellId \in DOMAIN t.textLayers : t.textLayers[cellId] = textLayerId}
      grown(textLayer, cellId) ==
        LET lineLens == getLineLengths(textLayer)
            textHeightInLines == Len(lineLens)
            textWidthInChars == Greatest({0} \cup {lineLens[i] : i \in DOMAIN lineLens})
            r == cellId[1]
            c == cellId[2]
            rowGrown(x) ==
              IF textHeightInLines > getRowHeight(x, r)
              THEN [x EXCEPT !.tblRowHeights =
                               (r :> Greatest({1, textHeightInLines})) @@ @]
              ELSE x
            colGrown(x) ==
              IF textWidthInChars > getColWidth(x, c)
              THEN [x EXCEPT !.tblColWidths =
                               (c :> Greatest({1, textWidthInChars})) @@ @]
              ELSE x
        IN colGrown(rowGrown(t))
  IN IF cells = {} \/ ~\E k \in DOMAIN ls : ls[k].id = textLayerId /\ ls[k].type = "text"
     THEN t
     ELSE grown(ls[CHOOSE k \in DOMAIN ls : ls[k].id = textLayerId],
                CHOOSE cellId \in cells : TRUE)

\* TableLayer.drawRefreshSpacing(textLayerId) on the table at position k: the
\* cell sizes grow to the text, then the frame and the cell texts are laid
\* out again in a commit.  That commit never succeeds: with a visible cell
\* moveTextLayers calls this.getTextLayer, which no class defines, and
\* throws; without one the table is not happy.  Either way the table is
\* rolled back to its stash, which takes back what drawFrame drew and keeps
\* the grown sizes when the stash was taken by this commit.
drawRefreshSpacing(ls, k, textLayerId) ==
  LET entered(t) ==
        [IF ~t.commitLock THEN TableLayer_stash(t) ELSE t
           EXCEPT !.commitLock = TRUE]
  IN IF getTopLeftPixel(ls[k]) = NULL THEN ls
     ELSE [ls EXCEPT ![k] = TableLayer_rollback(entered(
                    updateCellDimensionsFromTextLayer(ls, ls[k], textLayerId)))]

\* TextLayer.updateParentTable of the text layer at position k.
updateParentTable(ls, k) ==
  IF hasTable(ls, ls[k])
  THEN drawRefreshSpacing(ls, CHOOSE t \in DOMAIN ls : ls[t].id = ls[k].tableId,
                          ls[k].id)
  ELSE ls

\* The key or text that TextLayer.draw applies to the layer before it
\* commits: a text of one character is written as a key, any other pasted.
TextLayer_edit(l, keyOrText) ==
  IF Len(keyOrText) = 1 THEN writeChar(l, keyOrText) ELSE paste(l, keyOrText)

\* The commit of TextLayer.draw on the edited layer l: the stash is taken
\* (of the edited layer, when none is held), the contents are drawn, and an
\* unhappy layer is rolled back.
TextLayer_commit(ls, l) ==
  LET entered == [IF ~l.commitLock THEN TextLayer_stash(l) ELSE l
                    EXCEPT !.commitLock = TRUE]
      finished(drawn) ==
        IF ~TextLayer_isHappy(ls, drawn)
        THEN [layer |-> TextLayer_rollback(drawn), value |-> FALSE]
        ELSE [layer |-> drawn, value |-> TRUE]
  IN finished(TextLayer_drawLayer(entered))

\* LayerManager.triggerChanged from the live layers ls, the groups and the
\* group history: tidyLayers, then capture.  Called from the update
\* function of a refresh (insideRefresh), the refresh has detached the
\* stored layers before, and renders the layers after.
triggerChanged(ls, groups, groupHistory, insideRefresh) ==
  LET tidied(t) ==
        /\ layers' = IF insideRefresh THEN renderAll(t.layers) ELSE t.layers
        /\ layerGroups' = t.groups
        /\ historyCursor' = 0
        /\ layerHistory' = Pushed(IF insideRefresh THEN Detached(layerHistory)
                                  ELSE layerHistory,
                                  copyLayersIdentically(t.layers))
        /\ layerGroupHistory' =
             groupCapture(IF t.deleted THEN GroupsDetached(groupHistory)
                          ELSE groupHistory,
                          t.groups)
  IN tidied(tidyLayers(ls, groups))

\* TextLayer.drawMouseDownEvent at pixel p, which no layer occupies: a text
\* layer with the placeholder is added in front, becomes the edited layer
\* and is drawn inside a refresh; then the cursor is put on its last cell.
TextDrawMouseDownEvent(p, id) ==
  /\ Idle
  /\ Len(layers) < MaxLayers
  /\ \A k \in DOMAIN layers : getPixelIndex(layers[k], p) = 0
  /\ LET newTextLayer ==
           [setStarterChar(Construct("text", id, p, getHighestZindex(layers) + 1))
              EXCEPT !.noWrites = TRUE]
         drawn(ls) == [ls EXCEPT ![1] = TextLayer_drawLayer(@)]
         cursored(l) ==
           IF l.pixels # <<>>
           THEN moveCursorToPixel([l EXCEPT !.cursor = Len(l.contents)],
                                  l.pixels[Len(l.pixels)]).layer
           ELSE moveCursorToPixel(l, l.fromPixel).layer
         placed(ls) == [ls EXCEPT ![1] = cursored(@)]
     IN layers' = placed(refresh(drawn(refreshCleared(<<newTextLayer>> \o layers))))
  /\ editingTextLayer' = id
  /\ layerHistory' = Detached(layerHistory)
  /\ hist' = [NoHist EXCEPT !.op = "text", !.layer = id,
                            !.before.layers = layers]
  /\ UNCHANGED <<canvas, txVars, historyCursor, layerGroups, layerGroupHistory>>

\* TextLayer.keyDownEvent with event.key = key: TextLayer.draw(key) on the
\* edited text layer.  The key is applied, then the layer commits; after a
\* successful commit the placeholder flag is updated, the parent table and
\* the joiners are resized and triggerChanged runs.
TextKeyDownEvent(key) ==
  /\ Idle
  /\ Len(layerHistory) <= MaxKeys
  /\ \E k \in DOMAIN layers :
       /\ layers[k].id = editingTextLayer
       /\ layers[k].type = "text"
       /\ LET edited == TextLayer_edit(layers[k], key)
              written(l) ==
                IF l.noWrites /\ l.contents # <<>> /\ l.contents # <<starterChar>>
                THEN [l EXCEPT !.noWrites = FALSE] ELSE l
              after(c) ==
                IF c.value
                THEN triggerChanged(
                       resizeJoinerLayers(
                         updateParentTable([layers EXCEPT ![k] = written(c.layer)], k),
                         k, getKeyedJointPixels(edited), TRUE),
                       layerGroups, layerGroupHistory, FALSE)
                ELSE /\ layers' = [layers EXCEPT ![k] = c.layer]
                     /\ UNCHANGED <<layerHistory, historyCursor, layerGroups,
                                    layerGroupHistory>>
              noted(c) ==
                hist' = [NoHist EXCEPT !.op = "key", !.layer = editingTextLayer,
                                       !.key = key, !.typed = edited.contents,
                                       !.committed = c.value,
                                       !.before.layers = layers]
              done(c) == after(c) /\ noted(c)
          IN done(TextLayer_commit(layers, edited))
  /\ UNCHANGED <<canvas, editingTextLayer, txVars>>

\* TextLayer.writingMouseDownEvent on a cell outside every text layer: the
\* edited layer loses its cursor and is no longer edited, every layer is
\* unselected and triggerChanged runs.
WritingMouseDownEvent ==
  /\ Idle
  /\ Len(layerHistory) <= MaxKeys
  /\ editingTextLayer # 0
  /\ LET left(l) ==
           [(IF l.id = editingTextLayer THEN clearLastCursor(l) ELSE l)
              EXCEPT !.isSelected = FALSE]
     IN triggerChanged([k \in DOMAIN layers |-> left(layers[k])],
                       layerGroups, layerGroupHistory, FALSE)
  /\ editingTextLayer' = 0
  /\ hist' = [NoHist EXCEPT !.op = "leave", !.before.layers = layers]
  /\ UNCHANGED <<canvas, txVars>>

\* The keys pressed: a printable character, Enter, Backspace and Delete.
Keys == {<<"a">>, KeyEnter, KeyBackspace, KeyDelete}

InitText ==
  /\ canvas = Canvas(rowCount, WideCols)
  /\ editingTextLayer = 0
  /\ layers = <<>>
  /\ stack = <<>>
  /\ ret = NoRet
  /\ batch = NoBatch
  /\ HistInit

NextText ==
  \/ \E p \in Pixels, id \in FreshIds(layers) : TextDrawMouseDownEvent(p, id)
  \/ \E key \in Keys : TextKeyDownEvent(key)
  \/ WritingMouseDownEvent

SpecText == InitText /\ [][NextText]_vars

----------------------------------------------------------------------------
(* Text editing: what a key leaves of the edited text layer.               *)

\* The layer with the id, among ls; NoLayer when there is none.
layerOf(ls, id) ==
  IF \E k \in DOMAIN ls : ls[k].id = id
  THEN ls[CHOOSE k \in DOMAIN ls : ls[k].id = id]
  ELSE NoLayer

IsPrefix(s, t) == Len(s) <= Len(t) /\ s = SubSeq(t, 1, Len(s))

\* The edited layer before and after the last key.
KeyBefore == layerOf(hist.before.layers, hist.layer)
KeyAfter == layerOf(layers, hist.layer)

\* C22: a single-key edit is atomic.  After a key (Enter, Backspace, Delete
\* or a printable character) that did not commit, the contents and the
\* cursor are the ones before the key; after one that committed, the
\* contents are the ones the key makes of them (up to the characters that
\* fit the grid) and the cursor is the one the key gives.
C22_KeyEditAtomic ==
  (hist.op = "key" /\ KeyAfter # NoLayer) =>
    LET edit == writeChar(KeyBefore, hist.key)
    IN IF hist.committed
       THEN /\ IsPrefix(KeyAfter.contents, edit.contents)
            /\ KeyAfter.contents = edit.contents => KeyAfter.cursor = edit.cursor
       ELSE /\ KeyAfter.contents = KeyBefore.contents
            /\ KeyAfter.cursor = KeyBefore.cursor

\* C23: a text layer outside a table is never without contents: it holds
\* the placeholder alone while nothing was written, and after the first
\* printable character typed into a layer that held only the placeholder
\* the contents are that character alone.
C23_PlaceholderReplaced ==
  /\ \A k \in DOMAIN layers :
       (layers[k].type = "text" /\ layers[k].tableId = 0) =>
         /\ layers[k].contents # <<>>
         /\ layers[k].noWrites => layers[k].contents = <<starterChar>>
  /\ (/\ hist.op = "key"
      /\ Len(hist.key) = 1
      /\ KeyBefore.noWrites
      /\ KeyBefore.contents = <<starterChar>>
      /\ KeyAfter # NoLayer) => KeyAfter.contents = hist.key

\* The characters of typed that come before the first one whose cell, for a
\* text starting at fromPixel, is off the grid.
FitsGrid(typed, fromPixel) ==
  LET breaksBefore(i) == {j \in 1 .. (i - 1) : typed[j] = "\n"}
      row(i) == fromPixel[1] + Cardinality(breaksBefore(i))
      col(i) == fromPixel[2] + (i - 1)
                  - (IF breaksBefore(i) = {} THEN 0 ELSE Greatest(breaksBefore(i)))
      off == {i \in DOMAIN typed :
                typed[i] # "\n" /\ getPixelByRowCol(row(i), col(i)) = NULL}
  IN IF off = {} THEN typed ELSE SubSeq(typed, 1, Least(off) - 1)

\* C24: when the text a key makes does not fit the grid, the layer keeps the
\* characters before the first one off the grid, is happy, and the commit
\* returns true (nothing is restored).
C24_OverflowTruncates ==
  (hist.op = "key" /\ KeyAfter # NoLayer) =>
    /\ KeyAfter.contents = FitsGrid(hist.typed, KeyBefore.fromPixel)
    /\ TextLayer_isHappy(layers, KeyAfter)
    /\ hist.committed

C24_Witness ==
  /\ hist.op = "key"
  /\ KeyAfter # NoLayer
  /\ hist.committed
  /\ KeyAfter.contents # <<>>
  /\ Len(KeyAfter.contents) < Len(hist.typed)

----------------------------------------------------------------------------
(* TableLayer: drawing a table by dragging from the cell of the mouse-down *)
(* to the cell under the mouse.                                            *)

\* The grid tables are drawn on.
TableRows == 4
TableCols == 6

RECURSIVE newTblCount(_, _, _, _, _)
\* The loop of TableLayer.getNewTblRows / getNewTblCols from count num and
\* extent current on: sizes[i] is the content size of row or column i, and a
\* row or column takes its content size and one line.
newTblCount(sizes, default, num, current, pixelSpan) ==
  LET size == IF num \in DOMAIN sizes /\ sizes[num] # 0 THEN sizes[num] ELSE default
  IN IF ~(num < tblSizeLimit) THEN num
     ELSE IF current + size + 1 - 1 > pixelSpan THEN num
     ELSE newTblCount(sizes, default, num + 1, current + size + 1, pixelSpan)

\* TableLayer.getNewTblRows, getNewTblCols
getNewTblRows(t, verticalPixelSpan) ==
  newTblCount(t.tblRowHeights, tblRowDefaultHeight, 0, 0, verticalPixelSpan)

getNewTblCols(t, lateralPixelSpan) ==
  newTblCount(t.tblColWidths, tblColDefaultWidth, 0, 0, lateralPixelSpan)

\* TableLayer.drawLayer(activePixel): the layer it leaves, and whether it
\* threw.  With both anchors set the method calls this.getBottomRightPixel,
\* which neither TableLayer nor a class it extends defines; the call throws
\* a TypeError, and the statements after it (the new row and column counts,
\* the frame, the cell texts) never run.
TableLayer_drawLayer(t, activePixel) ==
  LET set == setToPixel(t, activePixel)
  IN IF set.fromPixel = NULL \/ set.toPixel = NULL
     THEN [layer |-> empty(set), threw |-> FALSE]
     ELSE [layer |-> set, threw |-> TRUE]

\* Layer.draw(activePixel) of a table: drawLayer wrapped in a commit, which
\* rolls the table back when drawLayer threw or left the table unhappy.
TableLayer_draw(t, activePixel) ==
  LET entered == [IF ~t.commitLock THEN TableLayer_stash(t) ELSE t
                    EXCEPT !.commitLock = TRUE]
      finished(r) ==
        IF r.threw \/ ~TableLayer_isHappy(r.layer)
        THEN [layer |-> TableLayer_rollback(r.layer), value |-> FALSE]
        ELSE [layer |-> r.layer, value |-> TRUE]
  IN finished(TableLayer_drawLayer(entered, activePixel))

\* LayerManager.refresh(() => layer.draw(activePixel)) for the table in
\* front of ls, as the drawing handlers call it: what draw returned, and the
\* layers after all were rendered.
TableDrawn(ls, activePixel) ==
  LET drawn(cleared, r) ==
        [layers |-> refresh([cleared EXCEPT ![1] = r.layer]), value |-> r.value]
      run(cleared) == drawn(cleared, TableLayer_draw(cleared[1], activePixel))
  IN run(refreshCleared(ls))

\* Layer.drawMouseDownEvent at pixel p in table mode, no drawing going on and
\* no layer at p: a table is added in front and drawn to p.
TableDrawMouseDownEvent(p, id) ==
  /\ Idle
  /\ Len(layers) < MaxLayers
  /\ \A k \in DOMAIN layers :
       /\ layers[k].type # "table"
       /\ getPixelIndex(layers[k], p) = 0
  /\ LET newLayer == Construct("table", id, p, getHighestZindex(layers) + 1)
         done(r) ==
           /\ layers' = r.layers
           /\ hist' = [NoHist EXCEPT !.op = "table draw", !.layer = id,
                                     !.activePixel = p,
                                     !.committed = r.value,
                                     !.before.layers = <<newLayer>> \o layers]
     IN done(TableDrawn(<<newLayer>> \o layers, p))
  /\ layerHistory' = Detached(layerHistory)
  /\ UNCHANGED <<canvas, editingTextLayer, txVars, historyCursor, layerGroups,
                 layerGroupHistory>>

\* Layer.drawingMouseOverEvent at pixel q while a table is being drawn: the
\* latest layer is drawn to q, then findJoints runs for it.
TableDrawingMouseOverEvent(q) ==
  /\ Idle
  /\ layers # <<>>
  /\ layers[1].type = "table"
  /\ hist.op = "table draw"
  /\ LET done(r) ==
           /\ layers' = findJoints(r.layers, {1})
           /\ hist' = [NoHist EXCEPT !.op = "table draw", !.layer = layers[1].id,
                                     !.activePixel = q,
                                     !.lastPixel = hist.activePixel,
                                     !.committed = r.value,
                                     !.before.layers = layers]
     IN done(TableDrawn(layers, q))
  /\ layerHistory' = Detached(layerHistory)
  /\ UNCHANGED <<canvas, editingTextLayer, txVars, historyCursor, layerGroups,
                 layerGroupHistory>>

InitTable ==
  /\ canvas = Canvas(TableRows, TableCols)
  /\ editingTextLayer = 0
  /\ layers = <<>>
  /\ stack = <<>>
  /\ ret = NoRet
  /\ batch = NoBatch
  /\ HistInit

NextTable ==
  \/ \E p \in Pixels, id \in FreshIds(layers) : TableDrawMouseDownEvent(p, id)
  \/ \E q \in Pixels : TableDrawingMouseOverEvent(q)
  \/ Len(layerHistory) < MaxHistory /\ ChangeEvent

SpecTable == InitTable /\ [][NextTable]_vars

----------------------------------------------------------------------------
(* Properties of tables.  The table of the last draw is drawn from its     *)
(* start anchor to hist.activePixel; TblBefore and TblAfter are that table  *)
(* when draw was called and now.                                           *)

TblBefore == layerOf(hist.before.layers, hist.layer)
TblAfter == layerOf(layers, hist.layer)

\* The rows and columns that fit between the table's start anchor and the
\* pixel q, and the cells they make.
RowsTo(q) ==
  getNewTblRows(TblBefore, Greatest({q[1] - TblBefore.fromPixel[1],
                                     TblBefore.fromPixel[1] - q[1]}))

ColsTo(q) ==
  getNewTblCols(TblBefore, Greatest({q[2] - TblBefore.fromPixel[2],
                                     TblBefore.fromPixel[2] - q[2]}))

CellsTo(q) == (0 .. (RowsTo(q) - 1)) \X (0 .. (ColsTo(q) - 1))

\* The sizes of rows or columns 0 .. n-1, each with one divider line.
RECURSIVE ExtentBefore(_, _, _)
ExtentBefore(t, n, ofRows) ==
  IF n = 0 THEN 0
  ELSE ExtentBefore(t, n - 1, ofRows)
         + (IF ofRows THEN getRowHeight(t, n - 1) ELSE getColWidth(t, n - 1)) + 1

SameTableFields(t, b) ==
  /\ t.tblRows = b.tblRows
  /\ t.tblCols = b.tblCols
  /\ t.tblColWidths = b.tblColWidths
  /\ t.tblRowHeights = b.tblRowHeights
  /\ t.textLayers = b.textLayers

----------------------------------------------------------------------------
(* Copy and paste of the selected layers.                                  *)

\* The ids makeId draws for copies lie in 1 .. MaxCopyIds.
MaxCopyIds == 4

\* LayerManager.moveLayersToAvailableSpace: MAX_OFFSET and directions.
MAX_OFFSET == 10

directions ==
  <<<<1, 0>>, <<-1, 0>>, <<0, 1>>, <<0, -1>>,
    <<1, 1>>, <<1, -1>>, <<-1, 1>>, <<-1, -1>>>>

RECURSIVE moveLayersToAvailableSpace(_, _, _, _)
\* The loops of moveLayersToAvailableSpace from the given offset and
\* direction on: the layers at the positions layersToMove are moved by the
\* first offset that moveLayersAtomically accepts.
moveLayersToAvailableSpace(ls, layersToMove, offset, dir) ==
  LET next(r) ==
        IF r.success THEN r
        ELSE moveLayersToAvailableSpace(
               r.layers, layersToMove,
               IF dir = Len(directions) THEN offset + 1 ELSE offset,
               IF dir = Len(directions) THEN 1 ELSE dir + 1)
  IN IF layersToMove = <<>> \/ offset > MAX_OFFSET
     THEN [layers |-> ls, success |-> FALSE]
     ELSE next(moveLayersAtomically(ls, layersToMove,
                                    <<directions[dir][1] * offset,
                                      directions[dir][2] * offset>>))

\* Layer.copyAndRender of the layer at position k, the copy being given
\* newId: the copy is added in front, the original unselected and the copy
\* selected, and the copy is drawn inside a refresh of its own.
copyAndRender(ls, k, newId) ==
  LET layerCopy == [copy(ls[k], FALSE, newId) EXCEPT !.isSelected = TRUE]
      anchor == IF layerCopy.toPixel # NULL THEN layerCopy.toPixel
                ELSE layerCopy.fromPixel
      drawn(cleared) ==
        IF anchor # NULL
        THEN [cleared EXCEPT ![1] = drawLayer(@, anchor)]
        ELSE cleared
  IN refresh(drawn(refreshCleared(
       <<layerCopy>> \o [ls EXCEPT ![k].isSelected = FALSE])))

RECURSIVE copiedAll(_, _, _, _)
\* The loop of copyAndRenderSelectedLayers over the ids of the layers to
\* copy: the layers after it, and layerLookup as the list of the pairs of an
\* original's id and its copy's id.
copiedAll(ls, todo, newIds, layerLookup) ==
  IF todo = <<>> THEN [layers |-> ls, layerLookup |-> layerLookup]
  ELSE copiedAll(copyAndRender(ls, getLayerById(ls, Head(todo)), Head(newIds)),
                 Tail(todo), Tail(newIds),
                 Append(layerLookup, [old |-> Head(todo), new |-> Head(newIds)]))

\* layerLookup[oldId].new.id, 0 when the lookup has no such original.
newOf(layerLookup, oldId) ==
  IF \E e \in DOMAIN layerLookup : layerLookup[e].old = oldId
  THEN layerLookup[CHOOSE e \in DOMAIN layerLookup : layerLookup[e].old = oldId].new
  ELSE 0

\* layerLookup[oldId].old.id for the original of the copy newId, 0 for a
\* layer that is no copy.
oldOf(layerLookup, newId) ==
  IF \E e \in DOMAIN layerLookup : layerLookup[e].new = newId
  THEN layerLookup[CHOOSE e \in DOMAIN layerLookup : layerLookup[e].new = newId].old
  ELSE 0

\* LayerManager.repointJointsForCopiedLayers: every copy gets the joints of
\* its original whose layer was copied too, pointing to that layer's copy.
repointJointsForCopiedLayers(ls, layerLookup) ==
  LET carried(oldJoint) == newOf(layerLookup, oldJoint.layerId) # 0
      repointed(oldJoints) ==
        [i \in DOMAIN oldJoints |->
           [layerId |-> newOf(layerLookup, oldJoints[i].layerId),
            jointKey |-> oldJoints[i].jointKey]]
      joints(oldLayer) == repointed(SelectSeq(oldLayer.joints, carried))
  IN [k \in DOMAIN ls |->
        IF oldOf(layerLookup, ls[k].id) # 0
        THEN [ls[k] EXCEPT
                !.joints = joints(ls[getLayerById(ls, oldOf(layerLookup, ls[k].id))]),
                !.sharesJoints = FALSE]
        ELSE ls[k]]

\* GroupManager.groupLayers for the ids newGroupIds: the group is pushed
\* unless it has fewer than 2 ids or a group of the same ids exists.
groupLayers(groups, newGroupIds) ==
  IF Len(newGroupIds) < 2 THEN groups
  ELSE IF \E k \in DOMAIN groups : Signature(groups[k]) = Signature(newGroupIds)
  THEN groups
  ELSE Append(groups, newGroupIds)

RECURSIVE regrouped(_, _, _)
\* The loop of regroupForCopiedLayers over groupsToRecreate.
regrouped(groups, groupsToRecreate, layerLookup) ==
  LET copies(oldGroupMemberIds) ==
        SelectSeq([i \in DOMAIN oldGroupMemberIds |->
                     newOf(layerLookup, oldGroupMemberIds[i])],
                  LAMBDA id : id # 0)
  IN IF groupsToRecreate = <<>> THEN groups
     ELSE regrouped(IF Len(copies(Head(groupsToRecreate))) > 1
                    THEN groupLayers(groups, copies(Head(groupsToRecreate)))
                    ELSE groups,
                    Tail(groupsToRecreate), layerLookup)

\* LayerManager.regroupForCopiedLayers: for every group made of copied
\* originals only, the copies are grouped.
regroupForCopiedLayers(groups, layerLookup) ==
  regrouped(groups,
            findGroupsFromLayers(groups,
                                 {layerLookup[e].old : e \in DOMAIN layerLookup}),
            layerLookup)

\* LayerManager.repointTableTextLayers: the copy of a table maps its cells to
\* the copies of the cell texts, and those copies name the copied table.
repointTableTextLayers(ls, layerLookup) ==
  LET original(l) == ls[getLayerById(ls, oldOf(layerLookup, l.id))]
      isTableCopy(l) ==
        /\ oldOf(layerLookup, l.id) # 0
        /\ l.type = "table"
        /\ original(l).type = "table"
      cellsOf(oldTable) ==
        {cellId \in DOMAIN oldTable.textLayers :
           newOf(layerLookup, oldTable.textLayers[cellId]) # 0}
      mapOf(oldTable) ==
        [cellId \in cellsOf(oldTable) |->
           newOf(layerLookup, oldTable.textLayers[cellId])]
      tableOf(l) ==
        {t \in DOMAIN ls :
           /\ isTableCopy(ls[t])
           /\ \E cellId \in cellsOf(original(ls[t])) :
                mapOf(original(ls[t]))[cellId] = l.id}
      repointed(l) ==
        IF isTableCopy(l) THEN [l EXCEPT !.textLayers = mapOf(original(l))]
        ELSE IF l.type = "text" /\ tableOf(l) # {}
        THEN [l EXCEPT !.tableId = ls[Greatest(tableOf(l))].id]
        ELSE l
  IN [k \in DOMAIN ls |-> repointed(ls[k])]

\* LayerManager.copySelectedLayersEvent, makeId giving the copies the ids
\* newIds: refresh(() => copyAndRenderSelectedLayers()).  Every layer is
\* unselected, each selected layer is copied and its copy rendered, the
\* copies are moved to available space, their joints, groups and cell texts
\* are repointed, and triggerChanged runs; then the refresh renders.
CopySelectedLayersEvent(newIds) ==
  /\ Idle
  /\ Len(layerHistory) <= MaxHistory
  /\ LET cleared == refreshCleared(layers)
         layersToCopy == getSelectedLayers(cleared)
         unselectedAll ==
           [k \in DOMAIN cleared |->
              [(IF cleared[k].id = editingTextLayer /\ "contents" \in DOMAIN cleared[k]
                THEN clearLastCursor(cleared[k]) ELSE cleared[k])
                 EXCEPT !.isSelected = FALSE]]
         pushedToShared(newGroups) ==
           [e \in DOMAIN layerGroupHistory |->
              IF layerGroupHistory[e].shared
              THEN [layerGroupHistory[e] EXCEPT !.groups = @ \o newGroups]
              ELSE layerGroupHistory[e]]
         newLayers(copied) ==
           [i \in DOMAIN copied.layerLookup |->
              getLayerById(copied.layers, copied.layerLookup[i].new)]
         changed(moved, copied) ==
           triggerChanged(
             repointTableTextLayers(
               repointJointsForCopiedLayers(moved.layers, copied.layerLookup),
               copied.layerLookup),
             regroupForCopiedLayers(layerGroups, copied.layerLookup),
             pushedToShared(SubSeq(regroupForCopiedLayers(layerGroups,
                                                           copied.layerLookup),
                                   Len(layerGroups) + 1,
                                   Len(regroupForCopiedLayers(layerGroups,
                                                              copied.layerLookup)))),
             TRUE)
         pasted(copied) ==
           /\ changed(moveLayersToAvailableSpace(copied.layers, newLayers(copied),
                                                 1, 1),
                      copied)
           /\ hist' = [NoHist EXCEPT !.op = "copy",
                                     !.ids = copied.layerLookup,
                                     !.before.layers = layers,
                                     !.before.groups = layerGroups]
     IN /\ Len(newIds) = Len(layersToCopy)
        /\ layersToCopy # <<>>
        /\ pasted(copiedAll(unselectedAll,
                            [i \in DOMAIN layersToCopy |-> cleared[layersToCopy[i]].id],
                            newIds, <<>>))
  /\ editingTextLayer' = 0
  /\ UNCHANGED <<canvas, txVars>>

\* The id lists makeId may give the copies: ids no live layer has, each once.
NewIdLists(ls) ==
  {ids \in UNION {[1 .. n -> 1 .. MaxCopyIds] : n \in 1 .. MaxLayers} :
     /\ \A i, j \in DOMAIN ids : i # j => ids[i] # ids[j]
     /\ \A i \in DOMAIN ids, k \in DOMAIN ls : ls[k].id # ids[i]}

\* A one-cell square and a one-cell line in front of it, each drawn; the
\* line may end on the attachment point right of the square and be joined
\* to it.
InitCopy ==
  /\ canvas = Canvas(TallRows, colCount)
  /\ editingTextLayer = 0
  /\ \E p, q \in Pixels, jointed \in BOOLEAN :
       /\ jointed => (p = <<0, 0>> /\ q = <<0, 1>>)
       /\ layers = <<PointLine(2, q, 2),
                     [PointSquare(1, p, 1) EXCEPT
                        !.joints = IF jointed
                                   THEN <<[layerId |-> 2, jointKey |-> "r"]>>
                                   ELSE <<>>]>>
  /\ stack = <<>>
  /\ ret = NoRet
  /\ batch = NoBatch
  /\ HistInit

NextCopy ==
  \/ \E i \in DOMAIN layers : Select(i)
  \/ \E i \in DOMAIN layers : Unselect(i)
  \/ \E g \in LayerOrders :
       /\ \A k \in DOMAIN g : g[k] \in DOMAIN layers
       /\ Len(layerGroups) < MaxGroups
       /\ GroupLayers(g)
  \/ \E newIds \in NewIdLists(layers) : CopySelectedLayersEvent(newIds)

SpecCopy == InitCopy /\ [][NextCopy]_vars

----------------------------------------------------------------------------
(* C29: what copy and paste leaves behind.                                 *)

\* The pairs of an original's id and its copy's id of the copy just made.
CopyLookup == hist.ids

\* The layer with the id among ls is there.
Lives(ls, id) == \E k \in DOMAIN ls : ls[k].id = id

\* C29: after copy and paste of a selection every duplicate has an id other
\* than its original's, every joint of a duplicate is the original's joint
\* pointed to the duplicate of the layer it referred to, every group that
\* lay within the copied selection has a group of the corresponding
\* duplicates, and the originals keep their joints and the groups stay.
C29_CopyKeepsStructure ==
  hist.op = "copy" =>
    LET before == hist.before.layers
        olds == {CopyLookup[e].old : e \in DOMAIN CopyLookup}
        original(id) == before[getLayerById(before, oldOf(CopyLookup, id))]
        duplicates(g) == [i \in DOMAIN g |-> newOf(CopyLookup, g[i])]
    IN /\ \A e \in DOMAIN CopyLookup :
            /\ CopyLookup[e].new # CopyLookup[e].old
            /\ Lives(layers, CopyLookup[e].new)
       /\ \A k \in DOMAIN layers :
            oldOf(CopyLookup, layers[k].id) # 0 =>
              \A i \in DOMAIN layers[k].joints :
                /\ oldOf(CopyLookup, layers[k].joints[i].layerId) # 0
                /\ \E j \in DOMAIN original(layers[k].id).joints :
                     /\ newOf(CopyLookup, original(layers[k].id).joints[j].layerId)
                          = layers[k].joints[i].layerId
                     /\ original(layers[k].id).joints[j].jointKey
                          = layers[k].joints[i].jointKey
       /\ \A g \in DOMAIN hist.before.groups :
            (\A i \in DOMAIN hist.before.groups[g] :
               hist.before.groups[g][i] \in olds)
            => \E n \in DOMAIN layerGroups :
                 Signature(layerGroups[n])
                   = Signature(duplicates(hist.before.groups[g]))
       /\ \A k \in DOMAIN before :
            /\ Lives(layers, before[k].id)
            /\ layers[getLayerById(layers, before[k].id)].joints = before[k].joints
       /\ \A g \in DOMAIN hist.before.groups :
            \E n \in DOMAIN layerGroups : layerGroups[n] = hist.before.groups[g]

----------------------------------------------------------------------------
(* The arrow-key move, one statement at a time.  hist.pc is the position   *)
(* of the running handler in its statement list (0 when no handler runs),  *)
(* hist.steps the statements it has run, hist.saved what localStorage      *)
(* holds under "savedDrawing" and hist.notified whether the listeners were *)
(* told.                                                                   *)

\* The keys a key-down event brings: the four arrows and a letter.
ArrowKeys == {"ArrowUp", "ArrowRight", "ArrowDown", "ArrowLeft", "a"}

\* The switch of selectedArrowKeyDownEvent: <<verticalDiff, lateralDiff>>,
\* NULL for a key the switch returns on.
arrowDiff(key) ==
  CASE key = "ArrowUp" -> <<-1, 0>>
    [] key = "ArrowRight" -> <<0, 1>>
    [] key = "ArrowDown" -> <<1, 0>>
    [] key = "ArrowLeft" -> <<0, -1>>
    [] OTHER -> NULL

\* A triggerChanged that captures before it tidies.
triggerChanged_body_CapturesFirst ==
  <<"capture", "tidyLayers", "saveToLocalStorage", "triggerDrawingChanged">>

\* The statements of LayerManager.triggerChanged that change the drawing,
\* the storage or the listeners, in the order of its body.
triggerChanged_body ==
  <<"tidyLayers", "capture", "saveToLocalStorage", "triggerDrawingChanged">>

\* The statements of a successful selectedArrowKeyDownEvent in the order of
\* its body, the call of triggerChanged replaced by that method's body.
selectedArrowKeyDownEvent_body ==
  <<"moveLayersAtomically", "refresh", "findJoints">> \o triggerChanged_body

\* The handler is about to run the statement.
AtStatement(name) ==
  /\ hist.pc \in DOMAIN selectedArrowKeyDownEvent_body
  /\ selectedArrowKeyDownEvent_body[hist.pc] = name

\* hist after the statement name has run.
Stepped(name) ==
  [hist EXCEPT !.pc = IF @ = Len(selectedArrowKeyDownEvent_body) THEN 0 ELSE @ + 1,
               !.steps = Append(@, name)]

\* LayerManager.encodeAll: the encoded layers and the groups.
encodeAll(ls, groups) ==
  [layers |-> [k \in DOMAIN ls |-> encode(ls[k])], groups |-> groups]

\* selectedArrowKeyDownEvent(key) up to the result of moveLayersAtomically:
\* a key that is no arrow and an empty selection return at once; a move that
\* fails ends the handler, a move that succeeds lets it go on.
SelectedArrowKeyDownEvent(key) ==
  /\ Idle
  /\ hist.pc = 0
  /\ Len(layerHistory) <= MaxHistory
  /\ LET moved(selected, r) ==
           /\ layers' = r.layers
           /\ hist' = [NoHist EXCEPT
                         !.op = IF r.success THEN "arrow" ELSE "moveFailed",
                         !.diff = arrowDiff(key),
                         !.origin = layers,
                         !.ids = [i \in DOMAIN selected |-> layers[selected[i]].id],
                         !.before.layers = layers,
                         !.before.n = Len(layerHistory),
                         !.pc = IF r.success THEN 2 ELSE 0,
                         !.steps = <<"moveLayersAtomically">>]
         with(selected) ==
           IF arrowDiff(key) = NULL \/ selected = <<>>
           THEN /\ layers' = layers
                /\ hist' = [NoHist EXCEPT !.op = "key ignored"]
           ELSE moved(selected,
                      moveLayersAtomically(layers, selected, arrowDiff(key)))
     IN with(getSelectedLayers(layers))
  /\ UNCHANGED <<canvas, editingTextLayer, txVars, layerHistory, historyCursor,
                 layerGroups, layerGroupHistory>>

\* this.refresh(() => {}) of the handler: the cell lists are emptied and
\* every layer is rendered.
ArrowRefresh ==
  /\ AtStatement("refresh")
  /\ layers' = refresh(refreshCleared(layers))
  /\ layerHistory' = Detached(layerHistory)
  /\ hist' = Stepped("refresh")
  /\ UNCHANGED <<canvas, editingTextLayer, txVars, historyCursor, layerGroups,
                 layerGroupHistory>>

\* this.findJoints(selectedLayers) of the handler.
ArrowFindJoints ==
  /\ AtStatement("findJoints")
  /\ layers' = findJoints(layers,
                          {k \in DOMAIN layers :
                             \E i \in DOMAIN hist.ids : hist.ids[i] = layers[k].id})
  /\ hist' = Stepped("findJoints")
  /\ UNCHANGED <<canvas, editingTextLayer, txVars, layerHistory, historyCursor,
                 layerGroups, layerGroupHistory>>

\* this.tidyLayers() of triggerChanged.
TidyLayers ==
  /\ AtStatement("tidyLayers")
  /\ LET tidied(t) ==
           /\ layers' = t.layers
           /\ layerGroups' = t.groups
           /\ layerGroupHistory' = IF t.deleted
                                   THEN GroupsDetached(layerGroupHistory)
                                   ELSE layerGroupHistory
     IN tidied(tidyLayers(layers, layerGroups))
  /\ hist' = Stepped("tidyLayers")
  /\ UNCHANGED <<canvas, editingTextLayer, txVars, layerHistory, historyCursor>>

\* this.capture() of triggerChanged.
Capture ==
  /\ AtStatement("capture")
  /\ historyCursor' = 0
  /\ layerHistory' = Pushed(layerHistory, copyLayersIdentically(layers))
  /\ layerGroupHistory' = groupCapture(layerGroupHistory, layerGroups)
  /\ hist' = Stepped("capture")
  /\ UNCHANGED <<canvas, editingTextLayer, txVars, layers, layerGroups>>

\* this.saveToLocalStorage() of triggerChanged:
\* localStorage.setItem("savedDrawing", this.encodeAll()).
SaveToLocalStorage ==
  /\ AtStatement("saveToLocalStorage")
  /\ hist' = [Stepped("saveToLocalStorage") EXCEPT
                !.saved = encodeAll(layers, layerGroups)]
  /\ UNCHANGED <<canvas, editingTextLayer, txVars, layers, layerHistory,
                 historyCursor, layerGroups, layerGroupHistory>>

\* externalHookManager.triggerDrawingChanged() of triggerChanged: the
\* external listeners are told that the drawing changed.
TriggerDrawingChanged ==
  /\ AtStatement("triggerDrawingChanged")
  /\ hist' = [Stepped("triggerDrawingChanged") EXCEPT !.notified = TRUE]
  /\ UNCHANGED <<canvas, editingTextLayer, txVars, layers, layerHistory,
                 historyCursor, layerGroups, layerGroupHistory>>

\* A one-cell square and a one-cell line without arrowheads in front of it.
InitArrow ==
  /\ canvas = Canvas(TallRows, colCount)
  /\ editingTextLayer = 0
  /\ \E p, q \in Pixels :
       layers = <<PointLine(2, q, 2)
                    @@ [hasArrowLeft |-> FALSE, hasArrowRight |-> FALSE],
                  PointSquare(1, p, 1)>>
  /\ stack = <<>>
  /\ ret = NoRet
  /\ batch = NoBatch
  /\ HistInit

NextArrow ==
  \/ \E i \in DOMAIN layers : hist.pc = 0 /\ Select(i)
  \/ \E i \in DOMAIN layers : hist.pc = 0 /\ Unselect(i)
  \/ \E key \in ArrowKeys : SelectedArrowKeyDownEvent(key)
  \/ ArrowRefresh
  \/ ArrowFindJoints
  \/ TidyLayers
  \/ Capture
  \/ SaveToLocalStorage
  \/ TriggerDrawingChanged

SpecArrow == InitArrow /\ [][NextArrow]_vars

\* The place of the statement in the statements run so far, 0 when it has
\* not run.
StepAt(name) ==
  IF \E i \in DOMAIN hist.steps : hist.steps[i] = name
  THEN CHOOSE i \in DOMAIN hist.steps : hist.steps[i] = name
  ELSE 0

\* The statement b has run only after the statement a.
RanBefore(a, b) == StepAt(b) # 0 => (StepAt(a) # 0 /\ StepAt(a) < StepAt(b))

\* C30: within an arrow-key move the selected layers' geometry is updated
\* before findJoints runs and findJoints before history is captured; inside
\* triggerChanged tidy runs before capture, capture before persistence and
\* persistence before the listeners are notified.  Each statement runs once,
\* history has grown exactly when capture has run, storage is written exactly
\* when persistence has run and the listeners are told only at the end.
C30_GestureOrder ==
  /\ RanBefore("moveLayersAtomically", "findJoints")
  /\ RanBefore("findJoints", "capture")
  /\ RanBefore("tidyLayers", "capture")
  /\ RanBefore("capture", "saveToLocalStorage")
  /\ RanBefore("saveToLocalStorage", "triggerDrawingChanged")
  /\ \A i, j \in DOMAIN hist.steps : hist.steps[i] = hist.steps[j] => i = j
  /\ hist.op = "arrow" =>
       /\ (StepAt("capture") # 0) = (Len(layerHistory) = hist.before.n + 1)
       /\ (StepAt("saveToLocalStorage") # 0)
            = (hist.saved = encodeAll(layers, layerGroups))
       /\ hist.notified = (StepAt("triggerDrawingChanged") # 0)

\* An arrow-key move has run to its end: the layers were moved, history
\* holds one entry more, the drawing is saved and the listeners are told.
C30_Witness ==
  /\ hist.op = "arrow"
  /\ hist.pc = 0
  /\ hist.steps = selectedArrowKeyDownEvent_body
  /\ hist.notified
  /\ Len(layerHistory) = hist.before.n + 1

----------------------------------------------------------------------------
(* probeJoint on its own: a line probes an attachment point of a square.   *)

\* The value probeJoint returns: 2 when a visible attachment point is hit by
\* an end of the probing layer, 1 when an end is near it, else 0.
probeJointState(ls, probing, owner, jointPixelOnParent) ==
  LET ends == SelectSeq(getJoinerPixels(ls[probing]), LAMBDA e : e # NULL)
      isVisible == layerPixelIsVisible(ls, ls[owner], jointPixelOnParent)
      near == \E i \in DOMAIN ends :
                isVisible /\ isNear(ends[i], jointPixelOnParent, 1)
  IN IF jointPixelOnParent = NULL \/ ends = <<>> THEN 0
     ELSE IF HitEnd(ends, isVisible, jointPixelOnParent) # 0 THEN 2
     ELSE IF near THEN 1
     ELSE 0

\* probingLayer.probeJoint(layer, jointKey, jointPixel) as findJoints calls
\* it, for the layers at the positions probing and owner.
ProbeJoint(probing, owner, jointKey) ==
  /\ Idle
  /\ probing # owner
  /\ jointKey \in DOMAIN getKeyedJointPixels(layers[owner])
  /\ getKeyedJointPixels(layers[owner])[jointKey] # NULL
  /\ layers' = probeJoint(layers, probing, owner, jointKey,
                          getKeyedJointPixels(layers[owner])[jointKey])
  /\ hist' = [NoHist EXCEPT
                !.op = "probeJoint",
                !.layer = probing,
                !.jointKey = jointKey,
                !.activePixel = getKeyedJointPixels(layers[owner])[jointKey],
                !.state = probeJointState(
                            layers, probing, owner,
                            getKeyedJointPixels(layers[owner])[jointKey]),
                !.before.layers = layers]
  /\ UNCHANGED <<canvas, editingTextLayer, txVars, layerHistory, historyCursor,
                 layerGroups, layerGroupHistory>>

\* A one-cell square and a drawn line in front of it.
InitProbe ==
  /\ canvas = Canvas(TallRows, WideCols)
  /\ editingTextLayer = 0
  /\ \E p, q, r \in Pixels :
       layers = <<DrawnLine(2, q, r, 2), PointSquare(1, p, 1)>>
  /\ stack = <<>>
  /\ ret = NoRet
  /\ batch = NoBatch
  /\ HistInit

NextProbe ==
  \E jointKey \in {KeyOrder[i] : i \in DOMAIN KeyOrder} :
    ProbeJoint(1, 2, jointKey)

SpecProbe == InitProbe /\ [][NextProbe]_vars

\* The Manhattan distance of two cells.
Manhattan(p, q) == Abs(p[1] - q[1]) + Abs(p[2] - q[2])

\* C31: probeJoint returns 1 (near) exactly when some end of the probing
\* layer is at Manhattan distance 1 from the attachment point and no end
\* coincides with it, and then neither layer's joints change.
C31_NearIsManhattanOne ==
  hist.op = "probeJoint" =>
    LET ends == getJoinerPixels(hist.before.layers[hist.layer])
        oneAway == \E i \in DOMAIN ends : Manhattan(ends[i], hist.activePixel) = 1
        coincides == \E i \in DOMAIN ends : ends[i] = hist.activePixel
    IN /\ (hist.state = 1) <=> (oneAway /\ ~coincides)
       /\ hist.state = 1 =>
            \A k \in DOMAIN layers : layers[k].joints = hist.before.layers[k].joints

----------------------------------------------------------------------------
(* Z-order: bring to front, send to back, and the z-order of a new layer.  *)

\* LayerManager.getLowestZindex: Math.min(0, ...zindexes), 0 without layers.
getLowestZindex(ls) ==
  LET zs == {0} \cup {ls[k].zindex : k \in DOMAIN ls}
  IN CHOOSE z \in zs : \A y \in zs : z <= y

\* The body shared by bringToFrontEvent and sendToBackEvent: the selected
\* layers get the z-index z, this.refresh(() => this.renderAll()) runs and
\* then triggerChanged.
ZindexEvent(op, z) ==
  /\ Idle
  /\ Len(layerHistory) <= MaxHistory
  /\ triggerChanged(
       refresh(renderAll(refreshCleared(
         [k \in DOMAIN layers |->
            IF layers[k].isSelected THEN [layers[k] EXCEPT !.zindex = z]
            ELSE layers[k]]))),
       layerGroups, layerGroupHistory, TRUE)
  /\ hist' = [NoHist EXCEPT !.op = op, !.before.layers = layers]
  /\ UNCHANGED <<canvas, editingTextLayer, txVars>>

\* LayerManager.bringToFrontEvent
BringToFrontEvent == ZindexEvent("bringToFront", getHighestZindex(layers) + 1)

\* LayerManager.sendToBackEvent
SendToBackEvent == ZindexEvent("sendToBack", getLowestZindex(layers) - 1)

InitZindex ==
  /\ canvas = Canvas(rowCount, colCount)
  /\ editingTextLayer = 0
  /\ layers = <<>>
  /\ stack = <<>>
  /\ ret = NoRet
  /\ batch = NoBatch
  /\ HistInit

NextZindex ==
  \/ \E p \in Pixels, id \in FreshIds(layers) : DrawMouseDownEvent(p, id)
  \/ \E p \in Pixels, id \in FreshIds(layers) : TextDrawMouseDownEvent(p, id)
  \/ \E key \in {<<"a">>} : TextKeyDownEvent(key)
  \/ WritingMouseDownEvent
  \/ \E i \in DOMAIN layers : Select(i)
  \/ \E i \in DOMAIN layers : Unselect(i)
  \/ BringToFrontEvent
  \/ SendToBackEvent

SpecZindex == InitZindex /\ [][NextZindex]_vars

\* C32: bring-to-front and send-to-back change only the z-order of the
\* selected layers; afterwards every selected layer's z-order is greater
\* (smaller) than every unselected layer's, and every unselected layer's is
\* as before; a newly drawn layer gets the current maximum plus 1.
C32_ZindexOnly ==
  LET before == hist.before.layers
      zs == {before[k].zindex : k \in DOMAIN before}
      sameLayers ==
        /\ Len(layers) = Len(before)
        /\ \A k \in DOMAIN before :
             /\ layers[k].id = before[k].id
             /\ layers[k].isSelected = before[k].isSelected
             /\ layers[k].fromPixel = before[k].fromPixel
             /\ layers[k].toPixel = before[k].toPixel
             /\ layers[k].joints = before[k].joints
             /\ ~before[k].isSelected => layers[k].zindex = before[k].zindex
      selected == {k \in DOMAIN layers : layers[k].isSelected}
      others == DOMAIN layers \ selected
  IN /\ hist.op = "bringToFront" =>
          /\ sameLayers
          /\ \A s \in selected, u \in others : layers[s].zindex > layers[u].zindex
     /\ hist.op = "sendToBack" =>
          /\ sameLayers
          /\ \A s \in selected, u \in others : layers[s].zindex < layers[u].zindex
     /\ (hist.op = "text" /\ before # <<>>) =>
          layers[1].zindex = Greatest(zs) + 1

----------------------------------------------------------------------------
(* Drawing a diamond.                                                      *)

\* Layer.drawMouseDownEvent at pixel p in diamond mode, on a cell no layer
\* occupies: a diamond is added in front and drawn to p inside a refresh.
DiamondDrawMouseDownEvent(p, id) ==
  /\ Idle
  /\ Len(layers) < MaxLayers
  /\ \A k \in DOMAIN layers : getPixelIndex(layers[k], p) = 0
  /\ LET newLayer == Construct("diamond", id, p, getHighestZindex(layers) + 1)
         drawn(ls) == [ls EXCEPT ![1] = draw(@, p)]
     IN layers' = refresh(drawn(refreshCleared(<<newLayer>> \o layers)))
  /\ layerHistory' = Detached(layerHistory)
  /\ hist' = [NoHist EXCEPT !.op = "diamond draw", !.layer = id,
                            !.activePixel = p]
  /\ UNCHANGED <<canvas, editingTextLayer, txVars, historyCursor, layerGroups,
                 layerGroupHistory>>

\* Layer.drawingMouseOverEvent at pixel q while a diamond is being drawn: the
\* latest layer is drawn to q inside a refresh, then findJoints runs for it.
DiamondDrawingMouseOverEvent(q) ==
  /\ Idle
  /\ layers # <<>>
  /\ layers[1].type = "diamond"
  /\ hist.op = "diamond draw"
  /\ LET drawn(ls) == [ls EXCEPT ![1] = draw(@, q)]
     IN layers' = findJoints(refresh(drawn(refreshCleared(layers))), {1})
  /\ layerHistory' = Detached(layerHistory)
  /\ hist' = [NoHist EXCEPT !.op = "diamond draw", !.layer = layers[1].id,
                            !.activePixel = q,
                            !.lastPixel = hist.activePixel]
  /\ UNCHANGED <<canvas, editingTextLayer, txVars, historyCursor, layerGroups,
                 layerGroupHistory>>

InitDiamond ==
  /\ canvas = Canvas(WideCols, WideCols)
  /\ editingTextLayer = 0
  /\ layers = <<>>
  /\ stack = <<>>
  /\ ret = NoRet
  /\ batch = NoBatch
  /\ HistInit

NextDiamond ==
  \/ \E p \in Pixels, id \in FreshIds(layers) :
       layers = <<>> /\ DiamondDrawMouseDownEvent(p, id)
  \/ \E q \in Pixels : DiamondDrawingMouseOverEvent(q)

SpecDiamond == InitDiamond /\ [][NextDiamond]_vars

\* The character Layer.render leaves on the cell: the loop sets the value of
\* every entry in order, so the last entry of the cell is the one shown.
Shown(l, pixel) ==
  l.values[Greatest({i \in DOMAIN l.pixels : l.pixels[i] = pixel})]

\* C33: in a rasterized diamond whose four apexes are on the grid (and are
\* four cells), the character shown at the top and the bottom apex is the
\* vertical apex glyph and the one shown at the left and the right apex is
\* the lateral apex glyph.
C33_ApexGlyphsShown ==
  \A k \in DOMAIN layers :
    LET e == getExtremeApexPixels(layers[k])
    IN (/\ layers[k].type = "diamond"
        /\ layers[k].pixels # <<>>
        /\ e # NULL
        /\ \A a \in DOMAIN e : e[a] # NULL
        /\ e.topApex # e.bottomApex
        /\ e.leftApex # e.rightApex)
       => /\ Shown(layers[k], e.topApex) = getDiamondCorner("vertical")
          /\ Shown(layers[k], e.bottomApex) = getDiamondCorner("vertical")
          /\ Shown(layers[k], e.leftApex) = getDiamondCorner("lateral")
          /\ Shown(layers[k], e.rightApex) = getDiamondCorner("lateral")

----------------------------------------------------------------------------
(* Drawing a free line.                                                    *)

\* Layer.drawingMouseOverEvent at pixel q while the line in front is being
\* drawn: the line is drawn to q inside a refresh, then findJoints runs.
LineDrawingMouseOverEvent(q) ==
  /\ Idle
  /\ layers # <<>>
  /\ layers[1].type = "line"
  /\ LET drawn(ls) == [ls EXCEPT ![1] = draw(@, q)]
     IN layers' = findJoints(refresh(drawn(refreshCleared(layers))), {1})
  /\ layerHistory' = Detached(layerHistory)
  /\ hist' = [NoHist EXCEPT !.op = "line draw", !.layer = layers[1].id,
                            !.activePixel = q]
  /\ UNCHANGED <<canvas, editingTextLayer, txVars, historyCursor, layerGroups,
                 layerGroupHistory>>

\* A free line just constructed at a cell, with any arrowhead flags.
InitLine ==
  /\ canvas = Canvas(TallRows, TableCols)
  /\ editingTextLayer = 0
  /\ \E p \in Pixels, al, ar \in BOOLEAN :
       layers = <<[Construct("free-line", 1, p, 1) EXCEPT
                     !.hasArrowLeft = al, !.hasArrowRight = ar]>>
  /\ stack = <<>>
  /\ ret = NoRet
  /\ batch = NoBatch
  /\ HistInit

NextLine == \E q \in Pixels : LineDrawingMouseOverEvent(q)

SpecLine == InitLine /\ [][NextLine]_vars

\* The arrowhead glyphs.
ArrowGlyphs == {"arrow-up", "arrow-down", "arrow-left", "arrow-right"}

\* C34: a free line drawn between two cells of one row occupies exactly the
\* cells of that row between the two columns inclusive, each once, and every
\* cell bears the lateral glyph, except that an enabled arrowhead replaces
\* the glyph at its end.
C34_LateralLine ==
  \A k \in DOMAIN layers :
    LET l == layers[k]
        span == Least({l.fromPixel[2], l.toPixel[2]})
                  .. Greatest({l.fromPixel[2], l.toPixel[2]})
        glyphAt(i) ==
          IF l.pixels[i] = l.toPixel /\ l.hasArrowRight THEN ArrowGlyphs
          ELSE IF l.pixels[i] = l.fromPixel /\ l.hasArrowLeft THEN ArrowGlyphs
          ELSE {"lateral"}
    IN (/\ hist.op = "line draw"
        /\ l.id = hist.layer
        /\ l.toPixel # NULL
        /\ l.fromPixel[1] = l.toPixel[1])
       => /\ {l.pixels[i] : i \in DOMAIN l.pixels} = {l.fromPixel[1]} \X span
          /\ Len(l.pixels) = Cardinality(span)
          /\ Len(l.values) = Len(l.pixels)
          /\ \A i \in DOMAIN l.pixels : l.values[i] \in glyphAt(i)

\* The line from (0,0) to (0,5) is drawn: six cells, the first an arrowhead.
C34_Witness ==
  /\ hist.op = "line draw"
  /\ layers[1].fromPixel = <<0, 0>>
  /\ layers[1].toPixel = <<0, 5>>
  /\ layers[1].pixels = <<<<0, 0>>, <<0, 1>>, <<0, 2>>, <<0, 3>>, <<0, 4>>, <<0, 5>>>>
  /\ layers[1].values = <<"arrow-left", "lateral", "lateral", "lateral",
                          "lateral", "lateral">>

----------------------------------------------------------------------------
(* C35: what an arrow-key move leaves of the drawing.                      *)

\* C35: after a successful arrow-key move of the selection and its
\* triggerChanged, every layer that was live before the gesture is still
\* live, and every unselected layer has the occupied cells it had before.
C35_MoveKeepsLayers ==
  (hist.op = "arrow" /\ hist.steps = selectedArrowKeyDownEvent_body) =>
    \A k \in DOMAIN hist.before.layers :
      LET b == hist.before.layers[k]
      IN /\ Lives(layers, b.id)
         /\ ~b.isSelected =>
              layers[getLayerById(layers, b.id)].pixels = b.pixels

----------------------------------------------------------------------------
(* A new action captured after an undo.                                    *)

MaxBranch == 3

\* drawMouseDownEvent, observed with the drawing it started from and whether
\* an undo that moved the cursor back produced that drawing.
BranchDrawMouseDownEvent(p, id) ==
  DrawMouseDownEventObserved(p, id,
    [NoHist EXCEPT !.op = "draw", !.layer = id,
                   !.undos = IF hist.op = "undo" /\ historyCursor > 0
                             THEN 1 ELSE 0,
                   !.before.layers = Contents(layers)])

\* changeEvent (mouse up), observed with the drawing its gesture started
\* from: the one before the mouse-down, or the live one when the mouse went
\* up with nothing drawn.
BranchChangeEvent ==
  ChangeEventObserved(
    IF hist.op = "draw" THEN [hist EXCEPT !.op = "capture"]
    ELSE [NoHist EXCEPT !.op = "capture",
                        !.undos = IF hist.op = "undo" /\ historyCursor > 0
                             THEN 1 ELSE 0,
                        !.before.layers = Contents(layers)])

NextBranch ==
  \/ \E p \in Pixels, id \in FreshIds(layers) : BranchDrawMouseDownEvent(p, id)
  \/ Len(layerHistory) < MaxBranch /\ BranchChangeEvent
  \/ UndoEvent
  \/ RedoEvent

SpecBranch == InitHist /\ [][NextBranch]_vars

\* C36: after an undo followed by a new captured action, one further undo
\* restores the drawing that was live immediately before the new action (the
\* drawing the first undo produced).
C36_UndoAfterBranch ==
  [][(/\ hist.op = "capture"
      /\ hist.undos = 1
      /\ hist'.op = "undo")
       => Contents(layers') = hist.before.layers]_vars

----------------------------------------------------------------------------
(* Duplicate groups.                                                       *)

\* C40: after any sequence of group, ungroup and tidy operations,
\* layerGroups never holds two groups with the same member set.
C40_NoTwinGroups ==
  \A j, k \in DOMAIN layerGroups :
    j # k => Members(layerGroups[j]) # Members(layerGroups[k])

----------------------------------------------------------------------------
(* The layer history and the group history, entry by entry.                *)

MaxPaired == 3

\* Two free layers, no group.
InitPaired ==
  /\ canvas = Canvas(rowCount, colCount)
  /\ editingTextLayer = 0
  /\ layers = [k \in 1 .. MaxLayers |-> DrawnFreeLayer(k, <<0, k - 1>>, k)]
  /\ stack = <<>>
  /\ ret = NoRet
  /\ batch = NoBatch
  /\ HistInit

NextPaired ==
  \/ \E g \in LayerOrders :
       (\A k \in DOMAIN g : g[k] \in DOMAIN layers) /\ GroupLayers(g)
  \/ \E g \in LayerOrders :
       (\A k \in DOMAIN g : g[k] \in DOMAIN layers) /\ UngroupLayers(g)
  \/ Len(layerHistory) < MaxPaired /\ ChangeEvent
  \/ UndoEvent
  \/ RedoEvent
  \/ \E doc \in DocumentKinds : Import(doc)

SpecPaired == InitPaired /\ [][NextPaired]_vars

\* The stored drawings and the stored group lists, by content.
StoredLayers(h) == [e \in DOMAIN h |-> Contents(h[e])]

StoredGroups(groupHistory) ==
  [e \in DOMAIN groupHistory |-> groupHistory[e].groups]

\* C37: after any sequence of capture, undo, redo and import the layer
\* history and the group history have the same number of entries, the cursor
\* satisfies 0 <= cursor <= length - 1, and entry i of the group history is
\* the group list that was live when entry i of the layer history was
\* captured: a capture puts the live drawing and the live group list in front
\* of both histories, and the entries behind them move back together; no
\* other step changes a stored entry.
C37_HistoriesPaired ==
  /\ [](/\ Len(layerHistory) = Len(layerGroupHistory)
        /\ historyCursor >= 0
        /\ historyCursor <= Len(layerHistory) - 1)
  /\ [][IF hist'.op = "capture"
        THEN /\ Len(layerHistory') = Len(layerHistory) + 1
             /\ StoredLayers(layerHistory')[1] = Contents(layers')
             /\ StoredGroups(layerGroupHistory')[1] = layerGroups'
             /\ \A i \in DOMAIN layerHistory :
                  /\ StoredLayers(layerHistory')[i + 1]
                       = StoredLayers(layerHistory)[i]
                  /\ StoredGroups(layerGroupHistory')[i + 1]
                       = StoredGroups(layerGroupHistory)[i]
        ELSE /\ StoredLayers(layerHistory') = StoredLayers(layerHistory)
             /\ StoredGroups(layerGroupHistory')
                  = StoredGroups(layerGroupHistory)]_vars

\* Three entries are stored, the newest without a group and the one behind
\* it with the group of the two layers; an undo and then an import have left
\* the cursor on the second entry, whose group is live.
C37_Witness ==
  /\ hist.op = "import"
  /\ Len(layerHistory) = 3
  /\ historyCursor = 1
  /\ layerGroupHistory[1].groups = <<>>
  /\ layerGroupHistory[2].groups = <<<<1, 2>>>>
  /\ layerGroups = <<<<1, 2>>>>
  /\ Len(layerHistory[2]) = 2

----------------------------------------------------------------------------
(* The cell list and the character list of a layer.                        *)

\* C38: in every layer the list of occupied cells and the list of characters
\* have the same length after every operation, that is whenever no commit
\* call and no atomic batch is running, so the cell at index i is rendered
\* with the character at index i.
C38_CellsAndCharsAligned ==
  Idle => \A k \in DOMAIN layers :
            Len(layers[k].pixels) = Len(layers[k].values)

----------------------------------------------------------------------------
(* The cursor of a text layer.                                             *)

\* C39: for every text layer, after any sequence of key presses, pastes,
\* raster passes and rollbacks, the cursor index satisfies
\* 0 <= cursor <= length of contents.
C39_CursorInsideContents ==
  \A k \in DOMAIN layers :
    layers[k].type = "text"
      => /\ layers[k].cursor >= 0
         /\ layers[k].cursor <= Len(layers[k].contents)

====
